---- MODULE Spec2Model ----
(***************************************************************************)
(* The two slide-deck scripts of the repository, python_pptx_demo.py and   *)
(* superstore_example.py, as one state machine: the top-level statements   *)
(* of a script are its steps, the dataframes and the presentation are its  *)
(* state.  Numbers that pandas holds as floats are exact rationals here,   *)
(* with the IEEE results of a division by zero (inf, -inf, NaN) kept.      *)
(***************************************************************************)
EXTENDS Integers, Sequences, FiniteSets, TLC

VARIABLES
    script,         \* which of the two scripts runs
    pc,             \* position of the script
    input,          \* what the run reads: the rows of superstore.csv, resp. the random draws
    df,             \* the long-format dataframe
    df_table,       \* demo: summary pivot (Region x Year) with its Total row
    df_table_qoq,   \* demo: year-over-year growth table
    i,              \* 1-based index of the current entry of the slide list
    df_hc,          \* superstore: summary pivot of the current slide
    df_hc_qoq,      \* superstore: growth table of the current slide
    df_hc_mix,      \* superstore: mix table of the current slide
    prs,            \* prs.slides: the slides added so far, each with its shapes
    file,           \* the presentation file on disk
    saves,          \* how many times prs.save has written the file
    caught,         \* the steps whose exception an except clause has swallowed
    raised,         \* the step whose exception propagated out of the script
    call,           \* a helper function called on its own: its name and arguments
    program,        \* the statements the call runs, in order (table builders)
    obj,            \* the object the helper works on (paragraph, cell, chart, slide)
    stmt,           \* how many statements of the helper have run
    outcome         \* whether the helper is running, has returned or has raised

vars == <<script, pc, input, df, df_table, df_table_qoq, i, df_hc, df_hc_qoq,
          df_hc_mix, prs, file, saves, caught, raised, call, program, obj, stmt, outcome>>

(***************************************************************************)
(* Bounds of the model.                                                    *)
(***************************************************************************)
\* superstore: the largest sales of an order line in a quarter
MaxSales == 1
\* demo: a random draw is one of 1..DemoMaxSales (the source draws from [10000, 30000))
DemoMaxSales == 2
\* demo: the first DemoYears of the eleven years 2015..2025
DemoYears == 3
\* the table builders called on their own: the dataframes have 1..MaxRows rows
MaxRows == 3
\* prop_table called on its own: the data span up to MaxQuarters consecutive quarters
MaxQuarters == 17

(***************************************************************************)
(* Floats.  <<n, d>> with d > 0 is the rational n/d in lowest terms;       *)
(* <<1, 0>> is inf, <<-1, 0>> is -inf and <<0, 0>> is NaN.                 *)
(***************************************************************************)
Abs(n) == IF n < 0 THEN -n ELSE n

Sign(n) == IF n > 0 THEN 1 ELSE IF n < 0 THEN -1 ELSE 0

RECURSIVE GCD(_, _)
GCD(a, b) == IF b = 0 THEN a ELSE GCD(b, a % b)

Float(n, d) ==
    IF d = 0 THEN <<Sign(n), 0>>
    ELSE LET s == IF d < 0 THEN -1 ELSE 1
             g == GCD(Abs(n), Abs(d))
         IN  <<(s * n) \div g, (s * d) \div g>>

Num(n) == <<n, 1>>

NaN == <<0, 0>>

Inf == <<1, 0>>

IsFinite(x) == x[2] # 0

IsNaN(x) == x = NaN

\* x + y; NaN when either is NaN or the two are opposite infinities
FAdd(x, y) ==
    IF IsFinite(x) /\ IsFinite(y) THEN Float(x[1] * y[2] + y[1] * x[2], x[2] * y[2])
    ELSE IF IsNaN(x) \/ IsNaN(y) THEN NaN
    ELSE IF IsFinite(x) THEN y
    ELSE IF IsFinite(y) THEN x
    ELSE IF x = y THEN x ELSE NaN

FNeg(x) == <<-x[1], x[2]>>

FSub(x, y) == FAdd(x, FNeg(y))

\* x * y; 0 * inf is NaN
FMul(x, y) ==
    IF IsFinite(x) /\ IsFinite(y) THEN Float(x[1] * y[1], x[2] * y[2])
    ELSE IF IsNaN(x) \/ IsNaN(y) THEN NaN
    ELSE Float(Sign(x[1]) * Sign(y[1]), 0)

\* x / y as numpy divides float64: x/0 is inf, -inf or NaN by the sign of x
FDiv(x, y) ==
    IF IsNaN(x) \/ IsNaN(y) THEN NaN
    ELSE IF IsFinite(x) /\ IsFinite(y) THEN Float(x[1] * y[2], x[2] * y[1])
    ELSE IF IsFinite(y) THEN Float(Sign(x[1]) * (IF y[1] < 0 THEN -1 ELSE 1), 0)
    ELSE IF IsFinite(x) THEN Num(0)
    ELSE NaN

RECURSIVE FSum(_)
FSum(s) == IF s = <<>> THEN Num(0) ELSE FAdd(s[1], FSum(Tail(s)))

(***************************************************************************)
(* Dataframes.  A wide table is [columns, rows]: columns is the sequence   *)
(* of column labels, the pivot (label) column first, and every row maps    *)
(* each column label to its value, a string in the pivot column and a      *)
(* float in the period columns.  A long table is a set of rows.            *)
(***************************************************************************)
EmptyTable == [columns |-> <<>>, rows |-> <<>>]

\* every label of the model, in the order Python sorts strings
Ascending ==
    << "2015", "2015-Q1", "2015-Q2", "2015-Q3", "2015-Q4",
       "2016", "2016-Q1", "2016-Q2", "2016-Q3", "2016-Q4",
       "2017", "2017-Q1", "2018", "2019", "2020", "2021", "2022", "2023", "2024", "2025",
       "California", "Central", "Chairs", "Consumer", "Corporate", "East",
       "Furniture", "Home Office", "Illinois", "Midwest", "New York", "Northeast",
       "Office Supplies", "Paper", "Pennsylvania", "Phones", "South", "Tables",
       "Technology", "Texas", "Total", "West" >>

\* sorted(S): what groupby and pivot do to their keys
Sorted(S) == SelectSeq(Ascending, LAMBDA x : x \in S)

Range(s) == {s[k] : k \in DOMAIN s}

RECURSIVE SumSales(_)
SumSales(rows) ==
    IF rows = {} THEN 0
    ELSE LET r == CHOOSE x \in rows : TRUE IN r.Sales + SumSales(rows \ {r})

\* s.endswith(suffix)
EndsWith(s, suffix) ==
    /\ Len(s) >= Len(suffix)
    /\ SubSeq(s, Len(s) - Len(suffix) + 1, Len(s)) = suffix

\* s.startswith(prefix)
StartsWith(s, prefix) ==
    /\ Len(s) >= Len(prefix)
    /\ SubSeq(s, 1, Len(prefix)) = prefix

\* s[-2:]
LastTwo(s) == SubSeq(s, IF Len(s) >= 2 THEN Len(s) - 1 ELSE 1, Len(s))

\* the period (numeric) columns of a wide table: select_dtypes(include='number')
NumericColumns(t) == Tail(t.columns)

\* frame.groupby([index, columns]).sum().pivot(index, columns, values='Sales').reset_index():
\* one row per key and one column per period that occur in the frame, both sorted;
\* a key with no row in a period gets NaN there
Pivot(frame, index, columns) ==
    LET keys    == Sorted({r[index] : r \in frame})
        periods == Sorted({r[columns] : r \in frame})
        cell(k, p) ==
            LET hit == {r \in frame : r[index] = k /\ r[columns] = p}
            IN  IF hit = {} THEN NaN ELSE Num(SumSales(hit))
    IN  [columns |-> <<index>> \o periods,
         rows    |-> [n \in 1..Len(keys) |->
                         [c \in {index} \cup Range(periods) |->
                             IF c = index THEN keys[n] ELSE cell(keys[n], c)]]]

\* t.fillna(value), on the period columns
FillNa(t, value) ==
    [t EXCEPT !.rows =
        [n \in DOMAIN t.rows |->
            [c \in DOMAIN t.rows[n] |->
                IF c = t.columns[1] THEN t.rows[n][c]
                ELSE IF IsNaN(t.rows[n][c]) THEN value ELSE t.rows[n][c]]]]

\* t.replace([old], new), on the period columns
Replace(t, old, new) ==
    [t EXCEPT !.rows =
        [n \in DOMAIN t.rows |->
            [c \in DOMAIN t.rows[n] |->
                IF c = t.columns[1] THEN t.rows[n][c]
                ELSE IF t.rows[n][c] = old THEN new ELSE t.rows[n][c]]]]

\* t.sum(numeric_only=True): the sum of every period column over the rows
ColumnSums(t) ==
    [c \in Range(NumericColumns(t)) |->
        FSum([n \in DOMAIN t.rows |-> t.rows[n][c]])]

\* WithTotals gone wrong: the Total row is put first
WithTotalsOnTop(t) ==
    LET totals == ColumnSums(t)
        row    == [c \in Range(t.columns) |->
                     IF c = t.columns[1] THEN "Total" ELSE totals[c]]
    IN  [t EXCEPT !.rows = <<row>> \o t.rows]

\* totals = t.sum(numeric_only=True); totals[pivot] = 'Total'; t.loc['Total'] = totals;
\* t.reset_index(drop=True): the Total row is appended as the last row
WithTotals(t) ==
    LET totals == ColumnSums(t)
        row    == [c \in Range(t.columns) |->
                     IF c = t.columns[1] THEN "Total" ELSE totals[c]]
    IN  [t EXCEPT !.rows = Append(t.rows, row)]

\* t.drop(labels, axis=1)
DropColumns(t, labels) ==
    LET keep == SelectSeq(t.columns, LAMBDA c : c \notin labels)
    IN  [columns |-> keep,
         rows    |-> [n \in DOMAIN t.rows |-> [c \in Range(keep) |-> t.rows[n][c]]]]

\* t[labels]: the columns named, in the order named
SelectColumns(t, labels) ==
    [columns |-> labels,
     rows    |-> [n \in DOMAIN t.rows |-> [c \in Range(labels) |-> t.rows[n][c]]]]

\* t.columns[a:b] with Python's 0-based half-open slice, as a set of labels
ColumnSlice(t, a, b) ==
    {t.columns[k] : k \in {k \in DOMAIN t.columns : a + 1 <= k /\ k <= b}}

\* t.columns.get_loc(c), 1-based
GetLoc(t, c) == CHOOSE k \in DOMAIN t.columns : t.columns[k] = c

\* ((t[col] - t[prior]) / t[prior]) * 100, row by row
PctChange(t, col, prior) ==
    [n \in DOMAIN t.rows |->
        FMul(FDiv(FSub(t.rows[n][col], t.rows[n][prior]), t.rows[n][prior]), Num(100))]

\* out[col] = values, for a column out already has
SetColumn(out, col, values) ==
    [out EXCEPT !.rows =
        [n \in DOMAIN out.rows |-> [out.rows[n] EXCEPT ![col] = values[n]]]]

\* for col in t.select_dtypes(include='number').columns.to_list()[lag:]:
\*     out[col] = ((t[col] - t[columns[get_loc(col)-lag]]) / t[columns[get_loc(col)-lag]])*100
RECURSIVE GrowthLoop(_, _, _, _)
GrowthLoop(t, out, cols, lag) ==
    IF cols = <<>> THEN out
    ELSE LET col   == Head(cols)
             prior == t.columns[GetLoc(t, col) - lag]
         IN  GrowthLoop(t, SetColumn(out, col, PctChange(t, col, prior)), Tail(cols), lag)

\* s[k:] of a sequence, k 0-based
From(s, k) == SubSeq(s, k + 1, Len(s))

(***************************************************************************)
(* superstore_example.py: configuration and input.                         *)
(***************************************************************************)
\* a filter expression 'lhs == "rhs"' is kept as its two sides
slide_order ==
    << [type |-> "transition", title |-> "Superstore Analysis", sub_title |-> "a python-pptx use case"],
       [type |-> "pivot_summary", pivot |-> "Segment", title |-> "Segment"],
       [type |-> "pivot_summary", pivot |-> "Region", title |-> "Region"],
       [type |-> "pivot_summary", pivot |-> "Category", title |-> "Category"],
       [type |-> "top_customers", title |-> "Top Performing Customers"],
       [type |-> "ship_mode_analysis", title |-> "Ship Mode Comparison"],
       [type |-> "transition", title |-> "Appendix"],
       [type |-> "pivot_dbl_click", pivot |-> "State", title |-> "Region: East",
        filters |-> [lhs |-> "Region", rhs |-> "East"]],
       [type |-> "pivot_dbl_click", pivot |-> "State", title |-> "Region: West",
        filters |-> [lhs |-> "Region", rhs |-> "West"]],
       [type |-> "pivot_dbl_click", pivot |-> "State", title |-> "Region: South",
        filters |-> [lhs |-> "Region", rhs |-> "South"]],
       [type |-> "pivot_dbl_click", pivot |-> "State", title |-> "Region: Central",
        filters |-> [lhs |-> "Region", rhs |-> "Central"]],
       [type |-> "pivot_dbl_click", pivot |-> "Sub-Category", title |-> "Category: Furniture",
        filters |-> [lhs |-> "Sub-Category", rhs |-> "Furniture"]],
       [type |-> "pivot_dbl_click", pivot |-> "Sub-Category", title |-> "Category: Technology",
        filters |-> [lhs |-> "Sub-Category", rhs |-> "Technology"]],
       [type |-> "pivot_dbl_click", pivot |-> "Sub-Category", title |-> "Category: Office Supplies",
        filters |-> [lhs |-> "Sub-Category", rhs |-> "Office Supplies"]] >>

\* the growth of a quarter is taken against the column this many places earlier
QuarterLag == 4

\* the columns of the superstore dataframe that the pivots and filters name
Attributes == {"Segment", "Region", "State", "Category", "Sub-Category"}

\* the kinds of order line of the modelled dataset: two states in the East, one in
\* each other region
OrderLines ==
    << [a \in Attributes |->
          CASE a = "Segment" -> "Consumer" [] a = "Region" -> "East" [] a = "State" -> "New York"
            [] a = "Category" -> "Furniture" [] a = "Sub-Category" -> "Chairs"],
       [a \in Attributes |->
          CASE a = "Segment" -> "Corporate" [] a = "Region" -> "East" [] a = "State" -> "Pennsylvania"
            [] a = "Category" -> "Technology" [] a = "Sub-Category" -> "Phones"],
       [a \in Attributes |->
          CASE a = "Segment" -> "Home Office" [] a = "Region" -> "West" [] a = "State" -> "California"
            [] a = "Category" -> "Office Supplies" [] a = "Sub-Category" -> "Paper"],
       [a \in Attributes |->
          CASE a = "Segment" -> "Corporate" [] a = "Region" -> "South" [] a = "State" -> "Texas"
            [] a = "Category" -> "Technology" [] a = "Sub-Category" -> "Phones"],
       [a \in Attributes |->
          CASE a = "Segment" -> "Consumer" [] a = "Region" -> "Central" [] a = "State" -> "Illinois"
            [] a = "Category" -> "Furniture" [] a = "Sub-Category" -> "Tables"] >>

\* df['Calendar_Quarter'] of the modelled dataset: five consecutive quarters
CalendarQuarters == <<"2015-Q1", "2015-Q2", "2015-Q3", "2015-Q4", "2016-Q1">>

\* one row of the dataframe: an order line, its quarter and its sales
OrderRow(line, quarter, sales) ==
    [c \in Attributes \cup {"Calendar_Quarter", "Sales"} |->
        IF c = "Calendar_Quarter" THEN quarter
        ELSE IF c = "Sales" THEN sales ELSE line[c]]

\* what the two East lines sell in one quarter: the first 0..MaxSales, the second
\* 0 or 1, and at least one of them sells
EastSales == {p \in (0..MaxSales) \X (0..1) : p[1] + p[2] > 0}

\* The datasets of the model.  As in the superstore dataset, sales are positive
\* and every region has an order in every quarter, while a single state may have
\* none: the two East lines sell as east[q] says, the other lines sell 1.
Dataset(east) ==
    UNION { { OrderRow(OrderLines[1], CalendarQuarters[q], east[q][1]),
              OrderRow(OrderLines[2], CalendarQuarters[q], east[q][2]),
              OrderRow(OrderLines[3], CalendarQuarters[q], 1),
              OrderRow(OrderLines[4], CalendarQuarters[q], 1),
              OrderRow(OrderLines[5], CalendarQuarters[q], 1) } : q \in DOMAIN CalendarQuarters }

\* rows with no sales are no rows of the file
Datasets ==
    { {r \in Dataset(east) : r.Sales > 0} : east \in [DOMAIN CalendarQuarters -> EastSales] }

(***************************************************************************)
(* superstore_example.py: the dataframes of a pivot slide.                 *)
(***************************************************************************)
\* the names of a Python expression that is identifiers joined by '-'
RECURSIVE Names(_)
Names(expr) ==
    IF \E k \in 1..Len(expr) : SubSeq(expr, k, k) = "-"
    THEN LET k == CHOOSE j \in 1..Len(expr) :
                      /\ SubSeq(expr, j, j) = "-"
                      /\ \A h \in 1..(j - 1) : SubSeq(expr, h, h) # "-"
         IN  {SubSeq(expr, 1, k - 1)} \cup Names(SubSeq(expr, k + 1, Len(expr)))
    ELSE {expr}

\* whether df.query(current_slide['filters']) raises: the entry has no 'filters' key
\* (KeyError), or a name of the expression is no column (the '-' of Sub-Category is
\* a minus sign to the expression parser)
QueryRaises(entry) ==
    \/ "filters" \notin DOMAIN entry
    \/ \E name \in Names(entry.filters.lhs) : name \notin Attributes \cup {"Calendar_Quarter", "Sales"}

\* try: df_hc = df.query(current_slide['filters'])
\* except: df_hc = df.copy()
Filtered(frame, entry) ==
    IF QueryRaises(entry) THEN frame
    ELSE {r \in frame : r[entry.filters.lhs] = entry.filters.rhs}

\* df_hc before its first columns are dropped: pivot, fillna(0), Total row
Summary(frame, entry) ==
    WithTotals(FillNa(Pivot(Filtered(frame, entry), entry.pivot, "Calendar_Quarter"), Num(0)))

\* GrowthRaw gone wrong: the growth is taken against the previous quarter
GrowthRawPreviousQuarter(t) ==
    GrowthLoop(t, DropColumns(t, ColumnSlice(t, 1, QuarterLag + 1)),
               From(NumericColumns(t), QuarterLag), 1)

\* df_hc_qoq = df_hc.drop(df_hc.columns[1:5], axis=1).copy(), then the growth loop
GrowthRaw(t) ==
    GrowthLoop(t, DropColumns(t, ColumnSlice(t, 1, QuarterLag + 1)),
               From(NumericColumns(t), QuarterLag), QuarterLag)

\* MixLoop gone wrong: the column is divided by its first row, iloc[0]
RECURSIVE MixLoopByFirstRow(_, _)
MixLoopByFirstRow(t, cols) ==
    IF cols = <<>> THEN t
    ELSE LET col   == Head(cols)
             first == t.rows[1][col]
             pct   == [n \in DOMAIN t.rows |-> FMul(FDiv(t.rows[n][col], first), Num(100))]
         IN  MixLoopByFirstRow(SetColumn(t, col, pct), Tail(cols))

\* for col in df_hc_mix numeric columns: df_hc_mix[col] = (df_hc_mix[col]/df_hc_mix[col].iloc[-1])*100
RECURSIVE MixLoop(_, _)
MixLoop(t, cols) ==
    IF cols = <<>> THEN t
    ELSE LET col  == Head(cols)
             last == t.rows[Len(t.rows)][col]
             pct  == [n \in DOMAIN t.rows |-> FMul(FDiv(t.rows[n][col], last), Num(100))]
         IN  MixLoop(SetColumn(t, col, pct), Tail(cols))

\* the columns of the last column's quarter (its last two characters), their mix
\* percentages, and the first of them dropped
MixRaw(t, pivot) ==
    LET suffix == LastTwo(t.columns[Len(t.columns)])
        same   == SelectSeq(t.columns, LAMBDA c : EndsWith(c, suffix))
        mix    == MixLoop(SelectColumns(t, <<pivot>> \o same), same)
    IN  DropColumns(mix, {mix.columns[2]})

\* GrowthClean gone wrong: inf is not replaced
GrowthCleanKeepsInf(t) == FillNa(GrowthRaw(t), Num(0))

\* df_hc_qoq as the slide gets it: fillna(0), then replace([np.inf], 100)
GrowthClean(t) == Replace(FillNa(GrowthRaw(t), Num(0)), Inf, Num(100))

\* df_hc_mix as the slide gets it: fillna(0)
MixClean(t, pivot) == FillNa(MixRaw(t, pivot), Num(0))

\* df_hc as the slide gets it: df_hc.drop(df_hc.columns[1:5], axis=1)
SummaryKept(t) == DropColumns(t, ColumnSlice(t, 1, QuarterLag + 1))

(***************************************************************************)
(* python_pptx_demo.py: data.                                              *)
(***************************************************************************)
\* the regions of the model, two of the four of the source
DemoRegions == <<"Northeast", "South">>

\* 'Year': 2015 .. 2025, as column labels
YearLabels == <<"2015", "2016", "2017", "2018", "2019", "2020", "2021", "2022", "2023", "2024", "2025">>

DemoYearLabels == SubSeq(YearLabels, 1, DemoYears)

\* the year-over-year growth is taken against the previous column
YearLag == 1

\* df = pd.DataFrame(data): one row per region and year, Sales drawn at random
DemoFrame(draw) ==
    { [Region |-> DemoRegions[r], Year |-> DemoYearLabels[y], Sales |-> draw[<<r, y>>]] :
        r \in DOMAIN DemoRegions, y \in DOMAIN DemoYearLabels }

DemoDraws == [(DOMAIN DemoRegions) \X (DOMAIN DemoYearLabels) -> 1..DemoMaxSales]

\* df_table: df.pivot(index=['Region'], columns='Year', values='Sales') with its Total row
DemoSummary(frame) == WithTotals(Pivot(frame, "Region", "Year"))

\* df_table_qoq = df_table.drop(df_table.columns[1], axis=1).copy(), then the growth loop
DemoGrowth(t) ==
    GrowthLoop(t, DropColumns(t, {t.columns[2]}), From(NumericColumns(t), YearLag), YearLag)

(***************************************************************************)
(* Slides and shapes.  A slide is [entry, shapes]: the index of the entry  *)
(* of the slide list it was added for, and the shapes added to it, in      *)
(* order.  A shape is [kind, what].                                        *)
(***************************************************************************)
Shape(kind, what) == [kind |-> kind, what |-> what]

\* the sections of python_pptx_demo.py, one slide each
demo_sections == <<"title", "text", "shape", "chart", "table", "picture", "conclusion">>

SlideList == IF script = "superstore" THEN slide_order ELSE demo_sections

\* .head(3): the customers of the top_customers slide
TopCustomers == 3

\* the first match statement of the loop: which dataframes are computed
DataBranch(type) ==
    IF StartsWith(type, "pivot") THEN "pivot"
    ELSE IF type = "top_customers" THEN "top_customers"
    ELSE IF type = "ship_mode_analysis" THEN "ship_mode_analysis"
    ELSE "none"

\* RenderBranch gone wrong: the pivot case matches the tag 'pivot' itself
RenderBranchExact(type) ==
    IF type = "pivot" THEN "pivot"
    ELSE IF type = "top_customers" THEN "top_customers"
    ELSE IF type = "ship_mode_analysis" THEN "ship_mode_analysis"
    ELSE IF type = "transition" THEN "transition"
    ELSE "none"

\* the second match statement of the loop: which shapes are placed
RenderBranch(type) ==
    IF StartsWith(type, "pivot") THEN "pivot"
    ELSE IF type = "top_customers" THEN "top_customers"
    ELSE IF type = "ship_mode_analysis" THEN "ship_mode_analysis"
    ELSE IF type = "transition" THEN "transition"
    ELSE "none"

\* whether the pivot branch adds the monthly column chart
WithMonthlyChart(type) == type = "pivot_summary"

PivotShapes(entry) ==
    << Shape("textbox", "header"), Shape("table", "value_table"), Shape("table", "qoq_table"),
       Shape("table", "trend_table_line"), Shape("table", "trend_table_bar"),
       Shape("table", "prop_table") >>
    \o (IF WithMonthlyChart(entry.type) THEN <<Shape("chart", "monthly_column_chart")>> ELSE <<>>)

CustomerShapes ==
    << Shape("autoshape", "ribbon"), Shape("autoshape", "medal"), Shape("textbox", "customer_name"),
       Shape("textbox", "total_sales"), Shape("textbox", "total_sales_caption"),
       Shape("textbox", "demographics"), Shape("autoshape", "divider"),
       Shape("textbox", "yearly_average"), Shape("textbox", "yearly_average_caption"),
       Shape("textbox", "order_length"), Shape("textbox", "order_length_caption"),
       Shape("autoshape", "divider"), Shape("textbox", "top_products_title"),
       Shape("textbox", "top_products") >>

RECURSIVE Repeat(_, _)
Repeat(s, n) == IF n = 0 THEN <<>> ELSE s \o Repeat(s, n - 1)

TopCustomersShapes == <<Shape("textbox", "header")>> \o Repeat(CustomerShapes, TopCustomers)

TransitionShapes(entry) ==
    <<Shape("textbox", "title")>>
    \o (IF "sub_title" \in DOMAIN entry THEN <<Shape("textbox", "sub_title")>> ELSE <<>>)

\* the shapes of a section of the demo other than the picture section
DemoShapes(section) ==
    CASE section = "title" -> <<Shape("textbox", "title"), Shape("textbox", "sub_title")>>
      [] section = "text" ->
            <<Shape("textbox", "header")>> \o [k \in 1..7 |-> Shape("textbox", "example")]
      [] section = "shape" ->
            <<Shape("textbox", "header")>> \o [k \in 1..8 |-> Shape("autoshape", "example")]
            \o [k \in 1..4 |-> Shape("textbox", "annotation")]
      [] section = "chart" ->
            << Shape("textbox", "header"), Shape("chart", "column_chart"),
               Shape("textbox", "annotation"), Shape("textbox", "annotation"),
               Shape("textbox", "annotation") >>
      [] section = "table" ->
            << Shape("textbox", "header"), Shape("table", "table"),
               Shape("table", "trend_table_line"), Shape("table", "trend_table_bar") >>
            \o [k \in 1..6 |-> Shape("textbox", "annotation")]
      [] section = "conclusion" -> <<Shape("textbox", "header"), Shape("textbox", "conclusion")>>
      [] OTHER -> <<>>

\* the shapes entry k of the slide list gets when nothing fails, the picture slides apart
ShapesFor(k) ==
    IF script = "demo" THEN DemoShapes(demo_sections[k])
    ELSE LET entry == slide_order[k]
             b     == RenderBranch(entry.type)
         IN  CASE b = "pivot" -> PivotShapes(entry)
               [] b = "top_customers" -> TopCustomersShapes
               [] b = "transition" -> TransitionShapes(entry)
               [] OTHER -> <<>>

FullShapes == ShapesFor(i)

\* whether the current slide is the one with the seaborn boxplot
IsPictureSlide ==
    IF script = "demo" THEN demo_sections[i] = "picture"
    ELSE RenderBranch(slide_order[i].type) = "ship_mode_analysis"

\* the shapes of the try block when seaborn_boxplot succeeds
TryShapes ==
    IF script = "demo" THEN <<Shape("picture", "boxplot"), Shape("textbox", "annotation")>>
    ELSE <<Shape("picture", "boxplot")>>

\* ExceptShapes gone wrong: the except block passes
NoPlaceholder == <<>>

\* the shapes of the except block
ExceptShapes == <<Shape("textbox", "placeholder_text")>>

\* the building steps that can raise: tables and charts
Fallible(shape) == shape.kind \in {"table", "chart"}

\* slide.shapes of the current slide (the last one added) extended by shapes
AddShapes(shapes) ==
    [prs EXCEPT ![Len(prs)].shapes = @ \o shapes]

(***************************************************************************)
(* The steps of the scripts.                                               *)
(***************************************************************************)
data_vars == <<df, df_table, df_table_qoq, df_hc, df_hc_qoq, df_hc_mix>>

\* the state of a helper called on its own, which a run of a script leaves alone
helper_vars == <<call, program, obj, stmt, outcome>>

\* no helper is called on its own
NoCall ==
    /\ call = [fn |-> "none"]
    /\ program = <<>>
    /\ obj = [kind |-> "none"]
    /\ stmt = 0
    /\ outcome = "none"

\* after a slide is complete: the next entry of the slide list, or the save
Advance ==
    IF i < Len(SlideList)
    THEN /\ i' = i + 1
         /\ pc' = (IF script = "superstore" THEN "compute" ELSE "add_slide")
    ELSE /\ i' = i
         /\ pc' = "save"

\* an exception no except clause catches ends the script
Crash(step) ==
    /\ pc' = "crashed"
    /\ raised' = step

\* superstore: df = pd.read_csv('./superstore.csv') and the derived columns
ReadCsv ==
    /\ script = "superstore" /\ pc = "read_csv"
    /\ df' = input
    /\ pc' = "compute"
    /\ UNCHANGED <<script, input, df_table, df_table_qoq, i, df_hc, df_hc_qoq, df_hc_mix,
                   prs, file, saves, caught, raised>>
    /\ UNCHANGED helper_vars

ReadCsvFails ==
    /\ script = "superstore" /\ pc = "read_csv"
    /\ Crash("read_csv")
    /\ UNCHANGED <<script, input, i, prs, file, saves, caught>>
    /\ UNCHANGED data_vars
    /\ UNCHANGED helper_vars

\* demo: the random data, df_table and df_table_qoq
MakeData ==
    /\ script = "demo" /\ pc = "make_data"
    /\ df' = DemoFrame(input)
    /\ df_table' = DemoSummary(df')
    /\ df_table_qoq' = DemoGrowth(df_table')
    /\ pc' = "add_slide"
    /\ UNCHANGED <<script, input, i, df_hc, df_hc_qoq, df_hc_mix, prs, file, saves, caught, raised>>
    /\ UNCHANGED helper_vars

\* superstore: the dataframes of the current entry (the first match statement)
ComputeDataframes ==
    /\ script = "superstore" /\ pc = "compute"
    /\ LET entry == slide_order[i]
           b     == DataBranch(entry.type)
       IN  /\ CASE b = "pivot" ->
                     LET t == Summary(df, entry)
                     IN  /\ df_hc' = SummaryKept(t)
                         /\ df_hc_qoq' = GrowthClean(t)
                         /\ df_hc_mix' = MixClean(t, entry.pivot)
                         /\ caught' = IF QueryRaises(entry) THEN caught \cup {"filter"} ELSE caught
                [] b = "top_customers" ->
                     /\ df_hc' = [columns |-> <<"Customer_Name">>, rows |-> <<>>]
                     /\ UNCHANGED <<df_hc_qoq, df_hc_mix, caught>>
                [] OTHER -> UNCHANGED <<df_hc, df_hc_qoq, df_hc_mix, caught>>
    /\ pc' = "add_slide"
    /\ UNCHANGED <<script, input, df, df_table, df_table_qoq, i, prs, file, saves, raised>>
    /\ UNCHANGED helper_vars

\* ComputeFails gone wrong: the whole dataframe branch sits in a bare try/except
ComputeFailsSwallowed ==
    /\ script = "superstore" /\ pc = "compute"
    /\ DataBranch(slide_order[i].type) # "none"
    /\ caught' = caught \cup {"dataframes"}
    /\ pc' = "add_slide"
    /\ UNCHANGED <<script, input, i, prs, file, saves, raised>>
    /\ UNCHANGED data_vars
    /\ UNCHANGED helper_vars

\* superstore: a dataframe step of the current entry raises
ComputeFails ==
    /\ script = "superstore" /\ pc = "compute"
    /\ DataBranch(slide_order[i].type) # "none"
    /\ Crash("dataframes")
    /\ UNCHANGED <<script, input, i, prs, file, saves, caught>>
    /\ UNCHANGED data_vars
    /\ UNCHANGED helper_vars

\* AddSlide gone wrong: add_slide is called a second time for the entry
AddSlideTwice ==
    /\ pc = "add_slide"
    /\ prs' = Append(Append(prs, [entry |-> i, shapes |-> <<>>]), [entry |-> i, shapes |-> <<>>])
    /\ pc' = "render"
    /\ UNCHANGED <<script, input, i, file, saves, caught, raised>>
    /\ UNCHANGED data_vars
    /\ UNCHANGED helper_vars

\* slide = prs.slides.add_slide(prs.slide_layouts[6])
AddSlide ==
    /\ pc = "add_slide"
    /\ prs' = Append(prs, [entry |-> i, shapes |-> <<>>])
    /\ pc' = "render"
    /\ UNCHANGED <<script, input, i, file, saves, caught, raised>>
    /\ UNCHANGED data_vars
    /\ UNCHANGED helper_vars

\* the shapes of a slide without a picture, all placed
Render ==
    /\ pc = "render" /\ ~IsPictureSlide
    /\ prs' = AddShapes(FullShapes)
    /\ Advance
    /\ UNCHANGED <<script, input, file, saves, caught, raised>>
    /\ UNCHANGED data_vars
    /\ UNCHANGED helper_vars

\* a table or chart builder raises: the shapes before it are placed
RenderFails ==
    /\ pc = "render" /\ ~IsPictureSlide
    /\ \E n \in DOMAIN FullShapes :
          /\ Fallible(FullShapes[n])
          /\ prs' = AddShapes(SubSeq(FullShapes, 1, n - 1))
          /\ Crash(FullShapes[n].what)
    /\ UNCHANGED <<script, input, i, file, saves, caught>>
    /\ UNCHANGED data_vars
    /\ UNCHANGED helper_vars

\* the picture slide: header, then the try block runs to its end
RenderPicture ==
    /\ pc = "render" /\ IsPictureSlide
    /\ prs' = AddShapes(<<Shape("textbox", "header")>> \o TryShapes)
    /\ Advance
    /\ UNCHANGED <<script, input, file, saves, caught, raised>>
    /\ UNCHANGED data_vars
    /\ UNCHANGED helper_vars

\* the picture slide: header, then seaborn_boxplot raises and the bare except catches it
BoxplotFails ==
    /\ pc = "render" /\ IsPictureSlide
    /\ prs' = AddShapes(<<Shape("textbox", "header")>>)
    /\ caught' = caught \cup {"image"}
    /\ pc' = "except"
    /\ UNCHANGED <<script, input, i, file, saves, raised>>
    /\ UNCHANGED data_vars
    /\ UNCHANGED helper_vars

\* the except block: a text box with the placeholder text
ExceptBlock ==
    /\ pc = "except"
    /\ prs' = AddShapes(ExceptShapes)
    /\ Advance
    /\ UNCHANGED <<script, input, file, saves, caught, raised>>
    /\ UNCHANGED data_vars
    /\ UNCHANGED helper_vars

\* Save gone wrong: a second, empty Presentation() is the one saved
SaveWritesEmptyDeck ==
    /\ pc = "save"
    /\ file' = [written |-> TRUE, slides |-> <<>>]
    /\ saves' = saves + 1
    /\ pc' = "done"
    /\ UNCHANGED <<script, input, i, prs, caught, raised>>
    /\ UNCHANGED data_vars
    /\ UNCHANGED helper_vars

\* Save gone wrong: prs.save is indented into the loop, one save per slide and none after
SaveInsideLoop ==
    /\ pc \in {"add_slide", "save"}
    /\ IF pc = "add_slide"
       THEN /\ saves < i - 1
            /\ i > 1
            /\ pc' = pc
       ELSE pc' = "done"
    /\ file' = [written |-> TRUE, slides |-> prs]
    /\ saves' = saves + 1
    /\ UNCHANGED <<script, input, i, prs, caught, raised>>
    /\ UNCHANGED data_vars
    /\ UNCHANGED helper_vars

\* prs.save(...): the file holds the slides of the presentation
Save ==
    /\ pc = "save"
    /\ file' = [written |-> TRUE, slides |-> prs]
    /\ saves' = saves + 1
    /\ pc' = "done"
    /\ UNCHANGED <<script, input, i, prs, caught, raised>>
    /\ UNCHANGED data_vars
    /\ UNCHANGED helper_vars

\* prs.save(...) raises (the path cannot be written): no file
SaveFails ==
    /\ pc = "save"
    /\ Crash("save")
    /\ UNCHANGED <<script, input, i, prs, file, saves, caught>>
    /\ UNCHANGED data_vars
    /\ UNCHANGED helper_vars

(***************************************************************************)
(* Specifications.                                                         *)
(***************************************************************************)
NoFile == [written |-> FALSE, slides |-> <<>>]

Start ==
    /\ pc = (IF script = "superstore" THEN "read_csv" ELSE "make_data")
    /\ df = {}
    /\ df_table = EmptyTable /\ df_table_qoq = EmptyTable
    /\ i = 1
    /\ df_hc = EmptyTable /\ df_hc_qoq = EmptyTable /\ df_hc_mix = EmptyTable
    /\ prs = <<>>
    /\ file = NoFile
    /\ saves = 0
    /\ caught = {}
    /\ raised = "none"

\* inputs of the whole-script runs: every quarter (resp. every draw) alike
SampleDatasets ==
    { {r \in Dataset([q \in DOMAIN CalendarQuarters |-> p]) : r.Sales > 0} : p \in EastSales }

SampleDraws == { [c \in (DOMAIN DemoRegions) \X (DOMAIN DemoYearLabels) |-> v] : v \in 1..DemoMaxSales }

\* a whole run of either script
Init ==
    /\ script \in {"demo", "superstore"}
    /\ input \in (IF script = "superstore" THEN SampleDatasets ELSE SampleDraws)
    /\ Start
    /\ NoCall

Next ==
    \/ ReadCsv
    \/ ReadCsvFails
    \/ MakeData
    \/ ComputeFails
    \/ ComputeDataframes
    \/ AddSlide
    \/ Render
    \/ RenderFails
    \/ RenderPicture
    \/ BoxplotFails
    \/ ExceptBlock
    \/ Save
    \/ SaveFails

Spec == Init /\ [][Next]_vars

\* the interpreter runs the script on: a step that can be taken is taken
FairSpec == Spec /\ WF_vars(Next)

\* the data pipelines on every input of the model, no step failing
InitData ==
    /\ script \in {"demo", "superstore"}
    /\ input \in (IF script = "superstore" THEN Datasets ELSE DemoDraws)
    /\ Start
    /\ NoCall

NextData ==
    \/ ReadCsv
    \/ MakeData
    \/ ComputeDataframes
    \/ AddSlide
    \/ Render
    \/ RenderPicture
    \/ Save

SpecData == InitData /\ [][NextData]_vars

(***************************************************************************)
(* Properties of the summary, growth and mix tables.                       *)
(***************************************************************************)
\* the tables of the demo are computed
DemoTablesReady == script = "demo" /\ pc # "make_data"

\* df_hc, df_hc_qoq and df_hc_mix are those of the current entry, a pivot slide
PivotTablesReady ==
    /\ script = "superstore"
    /\ pc \in {"add_slide", "render"}
    /\ DataBranch(slide_order[i].type) = "pivot"

\* the summary table of the current entry with all its period columns
FullSummary == Summary(df, slide_order[i])

\* position of a label in a sequence of labels
IndexOf(s, x) == CHOOSE k \in DOMAIN s : s[k] = x

\* the values of column c in the rows before the last
AboveLast(t, c) == [n \in 1..(Len(t.rows) - 1) |-> t.rows[n][c]]

TotalRowSums(t) ==
    t.rows # <<>> =>
        /\ t.rows[Len(t.rows)][t.columns[1]] = "Total"
        /\ \A n \in 1..(Len(t.rows) - 1) : t.rows[n][t.columns[1]] # "Total"
        /\ \A c \in Range(NumericColumns(t)) : t.rows[Len(t.rows)][c] = FSum(AboveLast(t, c))

\* C1: in every summary pivot table (df_table of the demo, df_hc of a pivot slide)
\* the last row is the 'Total' row, and in every period column its value is the
\* sum of the column over all other rows.
C1_TotalRow ==
    /\ DemoTablesReady => TotalRowSums(df_table)
    /\ PivotTablesReady => TotalRowSums(df_hc) /\ TotalRowSums(FullSummary)

\* a pivot slide with two rows of 1 above a Total of 2
C1_Witness ==
    /\ PivotTablesReady
    /\ Len(df_hc.rows) = 3
    /\ Len(df_hc.columns) >= 2
    /\ \E c \in Range(NumericColumns(df_hc)) :
          /\ df_hc.rows[3][c] = Num(2)
          /\ df_hc.rows[1][c] = Num(1)
          /\ df_hc.rows[2][c] = Num(1)

\* (current - prior) / prior * 100 of two whole numbers, as float arithmetic gives it:
\* inf, -inf or NaN when prior is 0
GrowthOf(current, prior) == Float((current[1] - prior[1]) * 100, prior[1])

\* growth has the rows of summary and the period columns of summary but the first
\* lag ones, periods being those of the calendar in order
GrowthShape(growth, summary, calendar, lag) ==
    /\ growth.columns = <<summary.columns[1]>> \o From(calendar, lag)
    /\ NumericColumns(summary) = calendar
    /\ Len(growth.rows) = Len(summary.rows)
    /\ \A n \in DOMAIN growth.rows :
          growth.rows[n][growth.columns[1]] = summary.rows[n][summary.columns[1]]

\* every cell of growth is GrowthOf its current and its prior value; with
\* nonzero_only, every cell whose prior value is not 0
GrowthCells(growth, summary, calendar, lag, nonzero_only) ==
    \A n \in DOMAIN growth.rows : \A c \in Range(NumericColumns(growth)) :
        LET current == summary.rows[n][c]
            prior   == summary.rows[n][calendar[IndexOf(calendar, c) - lag]]
        IN  (nonzero_only /\ prior = Num(0)) \/ growth.rows[n][c] = GrowthOf(current, prior)

\* C2 as stated: every cell of a growth table, Total row included, equals
\* (current - prior) / prior * 100, prior being one year (demo) resp. four quarters
\* (superstore) earlier, and the periods without a prior have no column.
C2_Original ==
    /\ DemoTablesReady =>
          /\ GrowthShape(df_table_qoq, df_table, DemoYearLabels, 1)
          /\ GrowthCells(df_table_qoq, df_table, DemoYearLabels, 1, FALSE)
    /\ PivotTablesReady =>
          /\ GrowthShape(df_hc_qoq, FullSummary, CalendarQuarters, 4)
          /\ GrowthCells(df_hc_qoq, FullSummary, CalendarQuarters, 4, FALSE)

\* C2 amended: every cell of a growth table whose prior-period value is not zero,
\* Total row included, equals (current - prior) / prior * 100, prior being one year
\* (demo) resp. four quarters (superstore) earlier, and the periods without a prior
\* have no column.
C2_Growth ==
    /\ DemoTablesReady =>
          /\ GrowthShape(df_table_qoq, df_table, DemoYearLabels, 1)
          /\ GrowthCells(df_table_qoq, df_table, DemoYearLabels, 1, TRUE)
    /\ PivotTablesReady =>
          /\ GrowthShape(df_hc_qoq, FullSummary, CalendarQuarters, 4)
          /\ GrowthCells(df_hc_qoq, FullSummary, CalendarQuarters, 4, TRUE)

\* a pivot slide with a first row whose sales went from 2 to 1 (-50 %) above a Total
\* that did not change
C2_Witness ==
    /\ PivotTablesReady
    /\ Len(df_hc_qoq.rows) = 4
    /\ df_hc_qoq.rows[1]["2016-Q1"] = Float(-50, 1)
    /\ FullSummary.rows[1]["2015-Q1"] = Num(2)
    /\ df_hc_qoq.rows[4]["2016-Q1"] = Num(0)

\* the growth cells <<row, column>> of the current pivot slide whose prior value is zero
ZeroPriorCells ==
    { x \in (DOMAIN df_hc_qoq.rows) \X Range(NumericColumns(df_hc_qoq)) :
        FullSummary.rows[x[1]][CalendarQuarters[IndexOf(CalendarQuarters, x[2]) - 4]] = Num(0) }

\* the current value of a growth cell <<row, column>>
CurrentOf(x) == FullSummary.rows[x[1]][x[2]]

AllFinite(t) ==
    \A n \in DOMAIN t.rows : \A c \in Range(NumericColumns(t)) : IsFinite(t.rows[n][c])

\* C3 as stated: a growth cell whose prior value is zero holds the one sentinel (the
\* 100 that replaces inf), whatever its current value, and no growth cell is
\* infinite or NaN.
C3_Original ==
    /\ DemoTablesReady => AllFinite(df_table_qoq)
    /\ PivotTablesReady =>
          /\ AllFinite(df_hc_qoq)
          /\ \A x \in ZeroPriorCells : df_hc_qoq.rows[x[1]][x[2]] = Num(100)

\* C3 amended: in the superstore script a growth cell whose prior value is zero is
\* mapped to 100 when its current value is positive and to 0 when its current value
\* is zero, so that (sales being non-negative) no growth cell handed to qoq_table or
\* to a sparkbar is infinite or NaN; the demo script maps nothing and its priors are
\* never zero.
C3_Sentinels ==
    /\ DemoTablesReady =>
          /\ AllFinite(df_table_qoq)
          /\ \A n \in DOMAIN df_table.rows : \A c \in Range(NumericColumns(df_table)) :
                df_table.rows[n][c] # Num(0)
    /\ PivotTablesReady =>
          /\ AllFinite(df_hc_qoq)
          /\ \A x \in ZeroPriorCells :
                df_hc_qoq.rows[x[1]][x[2]] = (IF CurrentOf(x)[1] > 0 THEN Num(100) ELSE Num(0))

\* a pivot slide with a state that sold nothing in either quarter (0/0) next to a
\* state that sells now and sold nothing a year before
C3_Witness ==
    /\ PivotTablesReady
    /\ \E x \in ZeroPriorCells : CurrentOf(x) = Num(0) /\ df_hc_qoq.rows[x[1]][x[2]] = Num(0)
    /\ FullSummary.rows[Len(FullSummary.rows)]["2016-Q1"] = Num(1)

\* the values of column c in the rows before the last, summed
SumAboveLast(t, c) == FSum(AboveLast(t, c))

\* C4: in df_hc_mix, for every retained period column, the percentages of the rows
\* other than Total sum to 100 and the Total row is 100.
C4_MixSums ==
    PivotTablesReady =>
        /\ Len(df_hc_mix.columns) >= 2
        /\ df_hc_mix.rows[Len(df_hc_mix.rows)][df_hc_mix.columns[1]] = "Total"
        /\ \A c \in Range(NumericColumns(df_hc_mix)) :
              /\ SumAboveLast(df_hc_mix, c) = Num(100)
              /\ df_hc_mix.rows[Len(df_hc_mix.rows)][c] = Num(100)

\* a pivot slide whose mix splits a quarter to Consumer, half to Corporate and a
\* quarter to Home Office
C4_Witness ==
    /\ PivotTablesReady
    /\ Len(df_hc_mix.rows) = 4
    /\ df_hc_mix.rows[1]["2016-Q1"] = Num(25)
    /\ df_hc_mix.rows[2]["2016-Q1"] = Num(50)
    /\ df_hc_mix.rows[3]["2016-Q1"] = Num(25)

(***************************************************************************)
(* Properties of the runs: the file, the failures, the slides.             *)
(***************************************************************************)
\* the run has ended, by the save or by an uncaught exception
Ended == pc \in {"done", "crashed"}

\* the presentation file is written and holds at least one slide
FileWithSlides == file.written /\ Len(file.slides) >= 1

C6_SavedOnceAtEnd ==
    /\ [](/\ saves <= 1
          /\ pc = "done" <=> saves = 1
          /\ file.written <=> pc = "done"
          /\ file.written => file.slides = prs
          /\ pc = "crashed" => file = NoFile)
    /\ [][saves = 1 => UNCHANGED <<prs, file, saves>>]_vars
    /\ [][prs' # prs => saves = 0 /\ saves' = 0]_vars

\* a run of the superstore script that ended by its one save, all slides in the file
C6_Witness ==
    /\ script = "superstore" /\ pc = "done"
    /\ saves = 1
    /\ file.slides = prs /\ Len(prs) = Len(slide_order)

\* whether entry k of the slide list is the slide of the seaborn boxplot
IsPictureEntry(k) ==
    IF script = "demo" THEN demo_sections[k] = "picture"
    ELSE slide_order[k].type = "ship_mode_analysis"

\* the kinds and names of the shapes of a slide
Whats(slide) == {slide.shapes[n].what : n \in DOMAIN slide.shapes}
Kinds(slide) == {slide.shapes[n].kind : n \in DOMAIN slide.shapes}

\* the slide is finished: the loop has gone past it
Finished(j) == j \in DOMAIN prs /\ (j < i \/ pc \in {"save", "done"})

\* C7: when the seaborn boxplot fails the script does not terminate: the picture
\* slide gets a text box with the placeholder text and no picture, and the run
\* goes on with the remaining slides and the save.
C7_Placeholder ==
    /\ [](/\ raised \notin {"boxplot", "image", "picture"}
          /\ pc = "except" => "image" \in caught /\ IsPictureEntry(i) /\ Len(prs) = i
          /\ \A j \in DOMAIN prs :
                Finished(j) /\ IsPictureEntry(j) /\ "image" \in caught =>
                    /\ "placeholder_text" \in Whats(prs[j])
                    /\ "picture" \notin Kinds(prs[j])
          /\ \A j \in DOMAIN prs :
                Finished(j) /\ IsPictureEntry(j) /\ "image" \notin caught =>
                    /\ "placeholder_text" \notin Whats(prs[j])
                    /\ "picture" \in Kinds(prs[j])
          /\ pc = "done" /\ "image" \in caught => Len(file.slides) = Len(SlideList))
    /\ [][pc = "except" =>
            /\ pc' \in {"compute", "add_slide", "save"}
            /\ "placeholder_text" \in Whats(prs'[i])
            /\ (i < Len(SlideList) => i' = i + 1)]_vars

\* a run whose boxplot failed and that went on to save all its slides
C7_Witness ==
    /\ pc = "done" /\ "image" \in caught
    /\ file.written /\ Len(file.slides) = Len(SlideList)
    /\ \E j \in DOMAIN file.slides : "placeholder_text" \in Whats(file.slides[j])

\* the summary table of entry k computed from all rows of df
Unfiltered(k) ==
    SummaryKept(WithTotals(FillNa(Pivot(df, slide_order[k].pivot, "Calendar_Quarter"), Num(0))))

\* a failure and its exception are one: the run stopped iff an exception went uncaught
Propagates == (pc = "crashed") <=> (raised # "none")

SlidesAt ==
    CASE pc \in {"read_csv", "make_data"} -> {0}
      [] pc \in {"compute", "add_slide"} -> {i - 1}
      [] pc \in {"render", "except"} -> {i}
      [] pc \in {"save", "done"} -> {Len(SlideList)}
      [] OTHER -> {i - 1, i}

\* the first shape of a slide built from the entry
FirstShapeOf(entry) == IF entry.type = "transition" THEN "title" ELSE "header"

\* C9: the superstore script appends exactly one slide per entry of slide_order, in
\* configuration order: after the first k entries the presentation holds k slides,
\* slide j was built from entry j, and the saved deck has len(slide_order) slides.
C9_OneSlidePerEntry ==
    script = "superstore" =>
        /\ Len(prs) \in SlidesAt
        /\ i \in DOMAIN slide_order
        /\ \A j \in DOMAIN prs :
              /\ prs[j].entry = j
              /\ Finished(j) => prs[j].shapes[1].what = FirstShapeOf(slide_order[j])
        /\ file.written =>
              /\ Len(file.slides) = Len(slide_order)
              /\ \A j \in DOMAIN file.slides : file.slides[j].entry = j

\* the superstore run saved, the deck of fourteen slides in the order of slide_order
C9_Witness ==
    /\ script = "superstore" /\ file.written
    /\ Len(file.slides) = Len(slide_order)
    /\ file.slides[1].entry = 1 /\ file.slides[Len(slide_order)].entry = Len(slide_order)
    /\ file.slides[7].shapes[1].what = "title"

\* the five tags of the dispatch
Tags == {"transition", "pivot_summary", "pivot_dbl_click", "top_customers", "ship_mode_analysis"}

\* the rendering branch each tag is to select
BranchOfTag(tag) ==
    CASE tag \in {"pivot_summary", "pivot_dbl_click"} -> "pivot"
      [] tag = "top_customers" -> "top_customers"
      [] tag = "ship_mode_analysis" -> "ship_mode_analysis"
      [] tag = "transition" -> "transition"

\* the rendering branches whose shapes a slide holds
BranchesOf(slide) ==
    {b \in {"pivot", "top_customers", "ship_mode_analysis", "transition"} :
        CASE b = "pivot" ->
                Whats(slide) \cap {"value_table", "qoq_table", "trend_table_line",
                                   "trend_table_bar", "prop_table", "monthly_column_chart"} # {}
          [] b = "top_customers" -> Whats(slide) \cap {"ribbon", "medal", "customer_name"} # {}
          [] b = "ship_mode_analysis" -> Whats(slide) \cap {"boxplot", "placeholder_text"} # {}
          [] OTHER -> Whats(slide) \cap {"title", "sub_title"} # {}}

\* C10: slide types are dispatched over five tags: every entry of slide_order carries
\* one of them, each tag selects exactly one rendering branch, the two pivot tags
\* share the pivot branch and only pivot_summary adds the monthly column chart.
C10_Dispatch ==
    /\ \A k \in DOMAIN slide_order : slide_order[k].type \in Tags
    /\ script = "superstore" =>
          \A j \in DOMAIN prs : Finished(j) =>
              LET tag == slide_order[j].type
              IN  /\ BranchesOf(prs[j]) = {BranchOfTag(tag)}
                  /\ BranchOfTag(tag) = "pivot" =>
                        {"value_table", "qoq_table", "trend_table_line", "trend_table_bar",
                         "prop_table"} \subseteq Whats(prs[j])
                  /\ "monthly_column_chart" \in Whats(prs[j]) <=> tag = "pivot_summary"

\* the saved superstore deck: a pivot_summary slide with the monthly chart, a
\* pivot_dbl_click slide with the same tables and no chart
C10_Witness ==
    /\ script = "superstore" /\ pc = "done"
    /\ slide_order[2].type = "pivot_summary" /\ slide_order[8].type = "pivot_dbl_click"
    /\ "monthly_column_chart" \in Whats(prs[2])
    /\ "value_table" \in Whats(prs[8]) /\ "monthly_column_chart" \notin Whats(prs[8])
    /\ BranchesOf(prs[5]) = {"top_customers"} /\ BranchesOf(prs[1]) = {"transition"}

(***************************************************************************)
(* The helper functions, each called on its own with arguments drawn from  *)
(* small sets.  call holds the arguments as they were passed, obj the      *)
(* object as the helper has left it so far.                                *)
(***************************************************************************)
\* the state of the scripts, which a helper called on its own leaves alone
run_vars == <<script, pc, input, df, df_table, df_table_qoq, i, df_hc, df_hc_qoq,
              df_hc_mix, prs, file, saves, caught, raised>>

\* paragraph.alignment and text_frame.vertical_anchor: a member of PP_ALIGN, resp.
\* MSO_VERTICAL_ANCHOR, or None (inherited)
Alignments == {"None", "LEFT", "CENTER", "RIGHT", "JUSTIFY"}
Anchors == {"None", "TOP", "MIDDLE", "BOTTOM"}

\* the alignment arguments of the model: the six strings of the match statements and
\* others (another case, another word, the empty string, None)
AlignmentArguments ==
    {"left", "center", "right", "top", "middle", "bottom", "Left", "justify", "", "None"}

\* a paragraph with its text frame
TextShapes ==
    {[kind |-> "text", alignment |-> a, vertical_anchor |-> v] : a \in Alignments, v \in Anchors}

\* _horizontal_alignment gone wrong: a default case sets LEFT
HorizontalAlignmentWithDefault(shape, horizontal_alignment) ==
    CASE horizontal_alignment = "center" -> [shape EXCEPT !.alignment = "CENTER"]
      [] horizontal_alignment = "right" -> [shape EXCEPT !.alignment = "RIGHT"]
      [] OTHER -> [shape EXCEPT !.alignment = "LEFT"]

\* match horizontal_alignment: three cases, no default
_horizontal_alignment(shape, horizontal_alignment) ==
    CASE horizontal_alignment = "left" -> [shape EXCEPT !.alignment = "LEFT"]
      [] horizontal_alignment = "center" -> [shape EXCEPT !.alignment = "CENTER"]
      [] horizontal_alignment = "right" -> [shape EXCEPT !.alignment = "RIGHT"]
      [] OTHER -> shape

\* match vertical_alignment: three cases, no default
_vertical_alignment(shape, vertical_alignment) ==
    CASE vertical_alignment = "top" -> [shape EXCEPT !.vertical_anchor = "TOP"]
      [] vertical_alignment = "middle" -> [shape EXCEPT !.vertical_anchor = "MIDDLE"]
      [] vertical_alignment = "bottom" -> [shape EXCEPT !.vertical_anchor = "BOTTOM"]
      [] OTHER -> shape

(***************************************************************************)
(* Table cells.  A cell is its fill and the children of its a:tcPr other   *)
(* than the fill, in document order; a child is its tag in Clark notation  *)
(* and, for a line, its width, colour and dash style.                      *)
(***************************************************************************)
\* the namespace str(e.tag) starts with
DrawingML == "{http://schemas.openxmlformats.org/drawingml/2006/main}"

\* an element a:<name> with the attributes of a line ('' where it has none)
Element(name, w, val, dash) ==
    [tag |-> DrawingML \o name, w |-> w, val |-> val, prstDash |-> dash]

\* tag in str(e.tag): substring search
Contains(s, sub) ==
    \E k \in 1..(Len(s) - Len(sub) + 1) : SubSeq(s, k, k + Len(sub) - 1) = sub

\* lines.split(":")[-1]: what follows the last colon
RECURSIVE AfterLastColon(_)
AfterLastColon(s) ==
    IF \E k \in 1..Len(s) : SubSeq(s, k, k) = ":"
    THEN AfterLastColon(SubSeq(s, 1 + (CHOOSE k \in 1..Len(s) : SubSeq(s, k, k) = ":"), Len(s)))
    ELSE s

\* cell.fill.type == MSO_FILL.SOLID
IsSolid(fill) == fill.type = "solid"

\* fill.fore_color.rgb raises on a colour that is no RGB colour (a theme colour)
ForeColorRaises(fill) == IsSolid(fill) /\ fill.color = "scheme"

\* _cell_border raises before it has changed anything
CellBorderRaises(cell) == ForeColorRaises(cell.fill)

\* fill.background(): no fill
Background == [type |-> "background", color |-> "none"]

\* the loop of _cell_border gone wrong: the new line is added only where the side had none
RECURSIVE BorderLoopKeepsOld(_, _, _, _, _)
BorderLoopKeepsOld(tcPr, borders, line_type, border_color, border_width) ==
    IF borders = <<>> THEN tcPr
    ELSE LET lines == Head(borders)
             tag   == AfterLastColon(lines)
             old   == \E n \in DOMAIN tcPr : Contains(tcPr[n].tag, tag)
             ln    == Element(tag, border_width, border_color, line_type)
         IN  BorderLoopKeepsOld(IF old THEN tcPr ELSE Append(tcPr, ln),
                                Tail(borders), line_type, border_color, border_width)

\* for lines in borders: the children whose tag contains the local name of lines
\* are removed, then a line element with the requested attributes is appended
RECURSIVE BorderLoop(_, _, _, _, _)
BorderLoop(tcPr, borders, line_type, border_color, border_width) ==
    IF borders = <<>> THEN tcPr
    ELSE LET lines == Head(borders)
             tag   == AfterLastColon(lines)
             kept  == SelectSeq(tcPr, LAMBDA e : ~Contains(e.tag, tag))
             ln    == Element(tag, border_width, border_color, line_type)
         IN  BorderLoop(Append(kept, ln), Tail(borders), line_type, border_color, border_width)

\* _cell_border gone wrong: the fill is made transparent and not reapplied
CellBorderDropsFill(cell, borders, line_type, border_color, border_width) ==
    LET fill_found == IsSolid(cell.fill)
        tcPr       == BorderLoop(cell.tcPr, borders, line_type, border_color, border_width)
    IN  [cell EXCEPT !.fill = IF fill_found THEN Background ELSE @, !.tcPr = tcPr]

\* _cell_border on a cell whose fill colour can be read: a solid fill is made
\* transparent, the borders are set, and the fill is reapplied with its colour
_cell_border(cell, borders, line_type, border_color, border_width) ==
    LET fill_found  == IsSolid(cell.fill)
        fill_color  == cell.fill.color
        transparent == IF fill_found THEN Background ELSE cell.fill
        tcPr        == BorderLoop(cell.tcPr, borders, line_type, border_color, border_width)
    IN  [cell EXCEPT !.fill = IF fill_found THEN [type |-> "solid", color |-> fill_color]
                                 ELSE transparent,
                     !.tcPr = tcPr]

(***************************************************************************)
(* The table builders.  A builder is the sequence of the statements it     *)
(* runs on the slide, in order, computed from its loops; lengths are in    *)
(* hundredths of an inch, colours are RGB hex strings.                     *)
(***************************************************************************)
standard_row_height == IF script = "demo" THEN 30 ELSE 20
standard_column_width == IF script = "demo" THEN 100 ELSE 70
pivot_column_width == 130

primary_color == "07182D"
secondary_color == "F1DD9D"
white_color == "FFFFFF"
positive_color == "CCFFCC"
positive_accent_color == "006C31"
negative_color == "FFD1D1"
negative_accent_color == "9B111B"

\* one statement of a builder: the helper called, the table cell (row, column) it
\* is called on, <<>> when on none, and its arguments
St(op, cell, args) == [op |-> op, cell |-> cell, args |-> args]

\* the statements of the iterations of a loop, one after the other
RECURSIVE Concat(_)
Concat(seqs) == IF seqs = <<>> THEN <<>> ELSE Head(seqs) \o Concat(Tail(seqs))

\* range(a, b)
PyRange(a, b) == [k \in 1..(b - a) |-> a + k - 1]

\* the statements of the iterations of 'for v in values', body(v) each
Loop(values, body(_)) == Concat([k \in DOMAIN values |-> body(values[k])])

\* the numbers of a row of a dataframe: [item for item in row.tolist() if isinstance(item, (int, float))]
RowNumbers(frame, k) ==
    [c \in DOMAIN NumericColumns(frame) |-> frame.rows[k][NumericColumns(frame)[c]]]

\* shape_text(cell, [text], font_size, bold=..., font_color=..., horizontal_alignment=..., vertical_alignment='middle')
ShapeText(cell, text, bold, font_color, horizontal_alignment) ==
    St("shape_text", cell,
       [text |-> text, bold |-> bold, font_color |-> font_color,
        horizontal_alignment |-> horizontal_alignment, vertical_alignment |-> "middle"])

\* cell = _cell_border(cell, ['a:lnB'])
BottomBorder(cell) ==
    St("_cell_border", cell,
       [borders |-> <<"a:lnB">>, line_type |-> "solid", border_color |-> "07182D",
        border_width |-> "12700"])

\* x < y on finite floats
FLess(x, y) == x[1] * y[2] < y[1] * x[2]

\* max(data): the first of the largest items
RECURSIVE PyMax(_)
PyMax(data) ==
    IF Len(data) = 1 THEN data[1]
    ELSE LET m == PyMax(SubSeq(data, 1, Len(data) - 1))
         IN  IF FLess(m, data[Len(data)]) THEN data[Len(data)] ELSE m

\* min(data): the first of the smallest items
RECURSIVE PyMin(_)
PyMin(data) ==
    IF Len(data) = 1 THEN data[1]
    ELSE LET m == PyMin(SubSeq(data, 1, Len(data) - 1))
         IN  IF FLess(data[Len(data)], m) THEN data[Len(data)] ELSE m

\* an axis as add_chart creates it: shown, with labels, its scale (<<>>) automatic
NewAxis(major_gridlines) ==
    [visible |-> TRUE, has_major_gridlines |-> major_gridlines, has_minor_gridlines |-> FALSE,
     has_title |-> FALSE, tick_label_size |-> "auto", tick_label_color |-> "auto",
     maximum_scale |-> <<>>, minimum_scale |-> <<>>]

\* the chart slide.shapes.add_chart(chart_type, x, y, cx, cy, chart_data) creates for
\* one series: a title from the series name, a legend, and value-axis major gridlines
NewChart(chart_type, data, x, y, cx, cy) ==
    [chart_type |-> chart_type, values |-> data, x |-> x, y |-> y, cx |-> cx, cy |-> cy,
     has_title |-> TRUE, has_legend |-> TRUE,
     value_axis |-> NewAxis(TRUE), category_axis |-> NewAxis(FALSE),
     layout |-> "auto", gap_width |-> "auto",
     line |-> "auto", marker_style |-> "auto", marker_fill |-> "auto", marker_line |-> "auto",
     marker_size |-> [k \in DOMAIN data |-> "auto"],
     point_fill |-> [k \in DOMAIN data |-> "auto"]]

\* the axis part of _plot_area_only: no gridlines, no title, hidden, labels tiny and white
AxisOff(axis) ==
    [axis EXCEPT !.has_major_gridlines = FALSE, !.has_minor_gridlines = FALSE,
                 !.has_title = FALSE, !.visible = FALSE,
                 !.tick_label_size = "1", !.tick_label_color = "FFFFFF"]

\* _plot_area_only gone wrong: the legend is left as it was
PlotAreaOnlyKeepsLegend(chart) ==
    [chart EXCEPT !.value_axis = AxisOff(@), !.category_axis = AxisOff(@),
                  !.has_title = FALSE, !.layout = "inner"]

\* _plot_area_only(chart): both axes off, no title, no legend, and the plot area
\* laid out over the whole chart
_plot_area_only(chart) ==
    [chart EXCEPT !.value_axis = AxisOff(@), !.category_axis = AxisOff(@),
                  !.has_title = FALSE, !.has_legend = FALSE, !.layout = "inner"]

\* the statements of sparkline(slide, data, x, y, cx, cy)
sparkline(data, x, y, cx, cy) ==
    LET size(k) == <<St("marker_size", <<>>, [point |-> k + 1, size |-> "2"])>>
    IN  << St("add_chart", <<>>,
              [chart_type |-> "LINE_MARKERS", data |-> data, x |-> x, y |-> y, cx |-> cx, cy |-> cy]),
           St("_plot_area_only", <<>>, <<>>),
           St("series_line", <<>>, [color |-> primary_color]),
           St("marker_style", <<>>, [style |-> "CIRCLE"]) >>
        \o Loop(PyRange(0, Len(data)), size)
        \o << St("marker_fill", <<>>, [fill_color |-> primary_color]),
              St("marker_line", <<>>, [fill_color |-> primary_color]) >>

\* sparkbar gone wrong: the two ends of the value axis are swapped
SparkbarScalesSwapped(data, x, y, cx, cy) ==
    LET fill(k) ==
            <<St("point_fill", <<>>,
                 [point |-> k + 1,
                  fill_color |-> IF FLess(Num(0), data[k + 1]) THEN "00B050"
                                 ELSE IF FLess(data[k + 1], Num(0)) THEN "EB4651"
                                 ELSE "000000"])>>
    IN  << St("add_chart", <<>>,
              [chart_type |-> "COLUMN_CLUSTERED", data |-> data, x |-> x, y |-> y, cx |-> cx, cy |-> cy]),
           St("maximum_scale", <<>>, [value |-> PyMin(data)]),
           St("minimum_scale", <<>>, [value |-> PyMax(data)]),
           St("_plot_area_only", <<>>, <<>>),
           St("gap_width", <<>>, [value |-> "25"]) >>
        \o Loop(PyRange(0, Len(data)), fill)

\* the statements of sparkbar(slide, data, x, y, cx, cy)
sparkbar(data, x, y, cx, cy) ==
    LET fill(k) ==
            <<St("point_fill", <<>>,
                 [point |-> k + 1,
                  fill_color |-> IF FLess(Num(0), data[k + 1]) THEN "00B050"
                                 ELSE IF FLess(data[k + 1], Num(0)) THEN "EB4651"
                                 ELSE "000000"])>>
    IN  << St("add_chart", <<>>,
              [chart_type |-> "COLUMN_CLUSTERED", data |-> data, x |-> x, y |-> y, cx |-> cx, cy |-> cy]),
           St("maximum_scale", <<>>, [value |-> PyMax(data)]),
           St("minimum_scale", <<>>, [value |-> PyMin(data)]),
           St("_plot_area_only", <<>>, <<>>),
           St("gap_width", <<>>, [value |-> "25"]) >>
        \o Loop(PyRange(0, Len(data)), fill)

\* str(n) for an integer n
RECURSIVE IntStr(_)
IntStr(n) ==
    IF n < 0 THEN "-" \o IntStr(-n)
    ELSE IF n < 10 THEN <<"0", "1", "2", "3", "4", "5", "6", "7", "8", "9">>[n + 1]
    ELSE IntStr(n \div 10) \o IntStr(n % 10)

\* the value of one decimal digit, -1 for any other character
DigitValue(ch) ==
    IF \E v \in 0..9 : IntStr(v) = ch THEN CHOOSE v \in 0..9 : IntStr(v) = ch ELSE -1

\* int(s) for a string of decimal digits
RECURSIVE ParseInt(_)
ParseInt(s) ==
    IF Len(s) = 1 THEN DigitValue(s)
    ELSE 10 * ParseInt(SubSeq(s, 1, Len(s) - 1)) + DigitValue(SubSeq(s, Len(s), Len(s)))

\* the ',' format option: the digits of n >= 0 in groups of three
RECURSIVE Grouped(_)
Grouped(n) ==
    IF n < 1000 THEN IntStr(n)
    ELSE LET low == n % 1000
         IN  Grouped(n \div 1000) \o ","
             \o (IF low < 10 THEN "00" ELSE IF low < 100 THEN "0" ELSE "") \o IntStr(low)

\* n / d (d > 0) rounded to the nearest integer, halves to the even one
RoundHalfEven(n, d) ==
    LET q == n \div d
        r == n % d
    IN  IF 2 * r < d THEN q
        ELSE IF 2 * r > d THEN q + 1
        ELSE IF q % 2 = 0 THEN q ELSE q + 1

\* f'{x:,.0f}'
Fixed0(x) ==
    IF IsNaN(x) THEN "nan"
    ELSE IF ~IsFinite(x) THEN (IF x[1] < 0 THEN "-inf" ELSE "inf")
    ELSE (IF x[1] < 0 THEN "-" ELSE "") \o Grouped(RoundHalfEven(Abs(x[1]), x[2]))

\* f'{x:,.1f}'
Fixed1(x) ==
    IF IsNaN(x) THEN "nan"
    ELSE IF ~IsFinite(x) THEN (IF x[1] < 0 THEN "-inf" ELSE "inf")
    ELSE LET tenths == RoundHalfEven(10 * Abs(x[1]), x[2])
         IN  (IF x[1] < 0 THEN "-" ELSE "") \o Grouped(tenths \div 10) \o "." \o IntStr(tenths % 10)

\* str(label).replace('_', ' ')
RECURSIVE ReplaceUnderscore(_)
ReplaceUnderscore(s) ==
    IF Len(s) = 0 THEN ""
    ELSE (IF SubSeq(s, 1, 1) = "_" THEN " " ELSE SubSeq(s, 1, 1))
         \o ReplaceUnderscore(SubSeq(s, 2, Len(s)))

\* isinstance(value, (int, float)): the model's numbers are pairs, its labels strings
IsNumber(value) == value \in Int \X Int

\* the chart a call of trend_table overlays on the row with index label index
TrendChart(index, horizontal_pos, vertical_pos, chart_type, data) ==
    IF chart_type = "line"
    THEN sparkline(data, horizontal_pos,
                   vertical_pos + (standard_row_height * 2) + (standard_row_height * index),
                   pivot_column_width, standard_row_height)
    ELSE IF chart_type = "bar"
    THEN sparkbar(data, horizontal_pos,
                  vertical_pos + (standard_row_height * 2) + (standard_row_height * index) + 1,
                  IF script = "demo" THEN pivot_column_width ELSE 118,
                  IF script = "demo" THEN standard_row_height ELSE 12)
    ELSE <<>>

\* trend_table gone wrong: the row heights are set before the data cells get their text
TrendTableSizesFirst(frame, first_line_title, second_line_title, horizontal_pos, vertical_pos, chart_type) ==
    LET len == Len(frame.rows)
        header(index) ==
            << St("_cell_margins", <<index, 0>>, <<>>),
               St("_shape_fill", <<index, 0>>, [fill_color |-> primary_color]),
               ShapeText(<<index, 0>>, IF index = 0 THEN first_line_title ELSE second_line_title,
                         TRUE, white_color, "center") >>
        placeholder(r) ==
            << St("_cell_margins", <<r, 0>>, <<>>),
               ShapeText(<<r, 0>>, "0", TRUE, white_color, "center") >>
            \o (IF (r = len) \/ (r = len + 1) THEN <<BottomBorder(<<r, 0>>)>> ELSE <<>>)
        overlay(index) ==
            TrendChart(index, horizontal_pos, vertical_pos, chart_type, RowNumbers(frame, index + 1))
    IN  << St("add_table", <<>>,
              [rows |-> len + 2, cols |-> 1, left |-> horizontal_pos, top |-> vertical_pos,
               width |-> pivot_column_width, height |-> standard_row_height * (len + 2)]),
           St("_table_styles", <<>>, <<>>),
           St("_table_column_sizes", <<>>, [widths |-> <<pivot_column_width>>]) >>
        \o Loop(PyRange(0, 2), header)
        \o << St("_table_row_sizes", <<>>,
                 [heights |-> [r \in 1..(len + 2) |-> standard_row_height]]) >>
        \o Loop(PyRange(2, len + 2), placeholder)
        \o Loop(PyRange(0, len), overlay)

\* trend_table: a one-column table with two header rows and a hidden '0' in every
\* data cell, then one sparkline or sparkbar per row of the dataframe
trend_table(frame, first_line_title, second_line_title, horizontal_pos, vertical_pos, chart_type) ==
    LET len == Len(frame.rows)
        header(index) ==
            << St("_cell_margins", <<index, 0>>, <<>>),
               St("_shape_fill", <<index, 0>>, [fill_color |-> primary_color]),
               ShapeText(<<index, 0>>, IF index = 0 THEN first_line_title ELSE second_line_title,
                         TRUE, white_color, "center") >>
        placeholder(r) ==
            << St("_cell_margins", <<r, 0>>, <<>>),
               ShapeText(<<r, 0>>, "0", TRUE, white_color, "center") >>
            \o (IF (r = len) \/ (r = len + 1) THEN <<BottomBorder(<<r, 0>>)>> ELSE <<>>)
        overlay(index) ==
            TrendChart(index, horizontal_pos, vertical_pos, chart_type, RowNumbers(frame, index + 1))
    IN  << St("add_table", <<>>,
              [rows |-> len + 2, cols |-> 1, left |-> horizontal_pos, top |-> vertical_pos,
               width |-> pivot_column_width, height |-> standard_row_height * (len + 2)]),
           St("_table_styles", <<>>, <<>>),
           St("_table_column_sizes", <<>>, [widths |-> <<pivot_column_width>>]) >>
        \o Loop(PyRange(0, 2), header)
        \o Loop(PyRange(2, len + 2), placeholder)
        \o << St("_table_row_sizes", <<>>,
                 [heights |-> [r \in 1..(len + 2) |-> standard_row_height]]) >>
        \o Loop(PyRange(0, len), overlay)

\* the statements that start table, value_table and qoq_table: a table of
\* len(df) + 2 rows, its first row merged into one title cell
TitledTable(frame, title, horizontal_pos, vertical_pos) ==
    LET len  == Len(frame.rows)
        cols == Len(frame.columns)
    IN  << St("add_table", <<>>,
              [rows |-> len + 2, cols |-> cols, left |-> horizontal_pos, top |-> vertical_pos,
               width |-> (standard_column_width * (cols - 1)) + pivot_column_width,
               height |-> standard_row_height * (len + 2)]),
           St("_table_styles", <<>>, <<>>),
           St("_table_column_sizes", <<>>,
              [widths |-> [n \in 1..cols |->
                             IF n = 1 THEN pivot_column_width ELSE standard_column_width]]),
           St("merge", <<0, 0>>, [other_cell |-> <<0, cols - 1>>]),
           St("_cell_margins", <<0, 0>>, <<>>),
           St("_shape_fill", <<0, 0>>, [fill_color |-> primary_color]),
           ShapeText(<<0, 0>>, title, TRUE, white_color, "center") >>

\* the body of the cell loop shared by table and value_table: a header cell in
\* row 1, below it '$ {:,.0f}' for a number and str() for a label, bold in the
\* last row, with a bottom border in the last two rows
ValueCell(frame, r, c, header) ==
    LET len    == Len(frame.rows)
        value  == frame.rows[r - 1][frame.columns[c + 1]]
        border == IF (r - 1 = len) \/ (r - 1 = len - 1) THEN <<BottomBorder(<<r, c>>)>> ELSE <<>>
    IN  <<St("_cell_margins", <<r, c>>, <<>>)>>
        \o (IF r = 1
            THEN << St("_shape_fill", <<r, c>>, [fill_color |-> primary_color]),
                    ShapeText(<<r, c>>, header, TRUE, white_color, "center") >>
            ELSE IF IsNumber(value)
            THEN << St("margin_right", <<r, c>>, [value |-> 5]),
                    ShapeText(<<r, c>>, "$ " \o Fixed0(value), r - 1 = len, primary_color, "right") >>
                 \o border
            ELSE << St("margin_left", <<r, c>>, [value |-> 5]),
                    ShapeText(<<r, c>>, value, r - 1 = len, primary_color, "left") >>
                 \o border)

\* python_pptx_demo.py: table(slide, df, title, horizontal_pos, vertical_pos)
table(frame, title, horizontal_pos, vertical_pos) ==
    LET len == Len(frame.rows)
        line(r) == LET inner(c) == ValueCell(frame, r, c, frame.columns[c + 1])
                   IN  Loop(PyRange(0, Len(frame.columns)), inner)
    IN  TitledTable(frame, title, horizontal_pos, vertical_pos)
        \o Loop(PyRange(1, len + 2), line)
        \o << St("_table_row_sizes", <<>>,
                 [heights |-> [r \in 1..(len + 2) |-> standard_row_height]]) >>

\* superstore_example.py: value_table(df, title, horizontal_pos, vertical_pos)
value_table(frame, title, horizontal_pos, vertical_pos) ==
    LET len == Len(frame.rows)
        line(r) == LET inner(c) == ValueCell(frame, r, c, ReplaceUnderscore(frame.columns[c + 1]))
                   IN  Loop(PyRange(0, Len(frame.columns)), inner)
    IN  TitledTable(frame, title, horizontal_pos, vertical_pos)
        \o Loop(PyRange(1, len + 2), line)
        \o << St("_table_row_sizes", <<>>,
                 [heights |-> [r \in 1..(len + 2) |-> standard_row_height]]) >>

\* the sign of round(x, 2); round leaves an infinity and NaN as they are
SignRound2(x) ==
    IF ~IsFinite(x) THEN Sign(x[1])
    ELSE IF RoundHalfEven(100 * Abs(x[1]), x[2]) = 0 THEN 0 ELSE Sign(x[1])

\* qoq_table: as value_table with '{:,.1f}%', a fill and font colour by the sign of
\* the number, and the border test after the branches of the cell
qoq_table(frame, title, horizontal_pos, vertical_pos) ==
    LET len == Len(frame.rows)
        cell(r, c) ==
            LET value == frame.rows[r - 1][frame.columns[c + 1]]
                sign  == SignRound2(value)
                text  == IF r = 1 THEN ReplaceUnderscore(frame.columns[c + 1])
                         ELSE IF IsNumber(value) THEN Fixed1(value) \o "%" ELSE value
                horizontal_alignment ==
                         IF r = 1 THEN "center" ELSE IF IsNumber(value) THEN "right" ELSE "left"
                bold  == IF r = 1 THEN TRUE ELSE r - 1 = len
                fill_color ==
                         IF r = 1 THEN primary_color
                         ELSE IF ~IsNumber(value) THEN white_color
                         ELSE IF sign < 0 THEN negative_color
                         ELSE IF sign > 0 THEN positive_color ELSE white_color
                font_color ==
                         IF r = 1 THEN white_color
                         ELSE IF ~IsNumber(value) THEN primary_color
                         ELSE IF sign < 0 THEN negative_accent_color
                         ELSE IF sign > 0 THEN positive_accent_color ELSE primary_color
            IN  <<St("_cell_margins", <<r, c>>, <<>>)>>
                \o (IF r = 1 THEN <<>>
                    ELSE IF IsNumber(value) THEN <<St("margin_right", <<r, c>>, [value |-> 5])>>
                    ELSE <<St("margin_left", <<r, c>>, [value |-> 5])>>)
                \o << St("_shape_fill", <<r, c>>, [fill_color |-> fill_color]),
                      ShapeText(<<r, c>>, text, bold, font_color, horizontal_alignment) >>
                \o (IF (r - 1 = len) \/ (r - 1 = len - 1) THEN <<BottomBorder(<<r, c>>)>> ELSE <<>>)
        line(r) == LET inner(c) == cell(r, c) IN Loop(PyRange(0, Len(frame.columns)), inner)
    IN  TitledTable(frame, title, horizontal_pos, vertical_pos)
        \o Loop(PyRange(1, len + 2), line)
        \o << St("_table_row_sizes", <<>>,
                 [heights |-> [r \in 1..(len + 2) |-> standard_row_height]]) >>

\* an exception leaves the builder
Raise(error) == <<St("raise", <<>>, [error |-> error])>>

\* row[label] of df.iterrows() finds a value: the dataframe has a column label
HasColumn(frame, label) == \E c \in DOMAIN frame.columns : frame.columns[c] = label

\* the column prop_table looks up for the bar of the year back years before the last
\* column's: f'{str(int(df.columns[-1][:4])-back)}-{df.columns[-1][-2:]}'
PropColumn(frame, back) ==
    LET last == frame.columns[Len(frame.columns)]
    IN  IntStr(ParseInt(SubSeq(last, 1, 4)) - back) \o "-" \o LastTwo(last)

\* propbar(width, index, x, y): a rectangle 0.69 * width wide and 0.16 high
propbar(width, index, x, y) ==
    St("propbar", <<>>,
       [width |-> FMul(Float(69, 1), width), left |-> x, top |-> y + (standard_row_height * index),
        height |-> 16, fill_color |-> secondary_color])

\* prop_table: a three-column table of the percentages of columns 1, 2 and 3 of
\* the dataframe under a merged title and a header row, then three proportion bars
\* per row from the columns looked up by name
prop_table(frame, title, horizontal_pos, vertical_pos) ==
    LET len == Len(frame.rows)
        data(r, c) ==
            LET value == frame.rows[r - 1][frame.columns[c + 2]]
                last  == <<BottomBorder(<<r, c>>)>>
            IN  IF IsNumber(value)
                THEN << St("margin_right", <<r, c>>, [value |-> 5]),
                        ShapeText(<<r, c>>, Fixed1(value) \o "%", r - 1 = len, primary_color, "right") >>
                     \o (IF r - 1 = len THEN last ELSE <<>>)
                ELSE << St("margin_left", <<r, c>>, [value |-> 5]),
                        ShapeText(<<r, c>>, value, r - 1 = len, primary_color, "left") >>
                     \o (IF r - 1 = len THEN last ELSE <<>>)
        cell(r, c) ==
            IF c + 2 > Len(frame.columns)
            THEN <<St("_cell_margins", <<r, c>>, <<>>)>> \o Raise("IndexError")
            ELSE <<St("_cell_margins", <<r, c>>, <<>>)>>
                 \o (IF r = 1
                     THEN << St("margin_right", <<r, c>>, [value |-> 0]),
                             St("_shape_fill", <<r, c>>, [fill_color |-> primary_color]),
                             ShapeText(<<r, c>>, ReplaceUnderscore(frame.columns[c + 2]),
                                       TRUE, white_color, "center") >>
                     ELSE data(r, c))
                 \o (IF r - 1 = len - 1 THEN <<BottomBorder(<<r, c>>)>> ELSE <<>>)
        line(r) == LET inner(c) == cell(r, c) IN Loop(PyRange(0, 3), inner)
        bar(index, back) ==
            LET label == PropColumn(frame, back)
            IN  IF ~HasColumn(frame, label) THEN Raise("KeyError")
                ELSE <<propbar(FDiv(frame.rows[index + 1][label], Num(100)), index,
                               horizontal_pos + (standard_column_width * (2 - back)),
                               vertical_pos + (2 * standard_row_height) + 2)>>
        bars(index) == bar(index, 2) \o bar(index, 1) \o bar(index, 0)
    IN  << St("add_table", <<>>,
              [rows |-> len + 2, cols |-> 3, left |-> horizontal_pos, top |-> vertical_pos,
               width |-> standard_column_width * 3, height |-> standard_row_height * (len + 2)]),
           St("_table_styles", <<>>, <<>>),
           St("_table_column_sizes", <<>>, [widths |-> [n \in 1..3 |-> standard_column_width]]),
           St("merge", <<0, 0>>, [other_cell |-> <<0, 2>>]),
           St("_cell_margins", <<0, 0>>, <<>>),
           St("_shape_fill", <<0, 0>>, [fill_color |-> primary_color]),
           ShapeText(<<0, 0>>, title, TRUE, white_color, "center") >>
        \o Loop(PyRange(1, len + 2), line)
        \o << St("_table_row_sizes", <<>>,
                 [heights |-> [r \in 1..(len + 2) |-> standard_row_height]]) >>
        \o Loop(PyRange(0, len), bars)

\* a slide before a builder is called on it
EmptySlide ==
    [kind |-> "slide", table |-> [rows |-> 0], cells |-> <<>>, charts |-> <<>>, bars |-> <<>>]

\* a cell of a new table: no fill, no cell properties, an empty paragraph
NewCell ==
    [fill |-> [type |-> "none", color |-> "none"], tcPr |-> <<>>, text |-> "", bold |-> FALSE,
     font_color |-> "none", alignment |-> "None", vertical_anchor |-> "None"]

\* shape_text on a cell: the text and its font, then the two alignment helpers
WithText(cell, args) ==
    _vertical_alignment(
        _horizontal_alignment([cell EXCEPT !.text = args.text, !.bold = args.bold,
                                           !.font_color = args.font_color],
                              args.horizontal_alignment),
        args.vertical_alignment)

\* the statements of sparkline and sparkbar on the chart they added
ChartStatements ==
    {"_plot_area_only", "maximum_scale", "minimum_scale", "gap_width", "series_line",
     "marker_style", "marker_size", "marker_fill", "marker_line", "point_fill"}

\* the chart after statement st of sparkline or sparkbar
OnChart(st, chart) ==
    CASE st.op = "_plot_area_only" -> _plot_area_only(chart)
      [] st.op = "maximum_scale" -> [chart EXCEPT !.value_axis.maximum_scale = st.args.value]
      [] st.op = "minimum_scale" -> [chart EXCEPT !.value_axis.minimum_scale = st.args.value]
      [] st.op = "gap_width" -> [chart EXCEPT !.gap_width = st.args.value]
      [] st.op = "series_line" -> [chart EXCEPT !.line = st.args.color]
      [] st.op = "marker_style" -> [chart EXCEPT !.marker_style = st.args.style]
      [] st.op = "marker_size" -> [chart EXCEPT !.marker_size[st.args.point] = st.args.size]
      [] st.op = "marker_fill" -> [chart EXCEPT !.marker_fill = st.args.fill_color]
      [] st.op = "marker_line" -> [chart EXCEPT !.marker_line = st.args.fill_color]
      [] st.op = "point_fill" -> [chart EXCEPT !.point_fill[st.args.point] = st.args.fill_color]

\* the slide after statement st of a builder
Apply(st, slide) ==
    CASE st.op = "add_table" ->
            [slide EXCEPT
                !.table = [rows |-> st.args.rows, cols |-> st.args.cols,
                           left |-> st.args.left, top |-> st.args.top,
                           widths |-> [c \in 1..st.args.cols |-> st.args.width \div st.args.cols],
                           heights |-> [r \in 1..st.args.rows |-> st.args.height \div st.args.rows],
                           merged |-> {}, sized |-> FALSE],
                !.cells = [rc \in (0..(st.args.rows - 1)) \X (0..(st.args.cols - 1)) |-> NewCell]]
      [] st.op = "merge" ->
            [slide EXCEPT !.table.merged =
                {rc \in DOMAIN slide.cells :
                    /\ rc # st.cell
                    /\ rc[1] \in st.cell[1]..st.args.other_cell[1]
                    /\ rc[2] \in st.cell[2]..st.args.other_cell[2]}]
      [] st.op = "_table_column_sizes" -> [slide EXCEPT !.table.widths = st.args.widths]
      [] st.op = "_table_row_sizes" ->
            [slide EXCEPT !.table.heights = st.args.heights, !.table.sized = TRUE]
      [] st.op = "_cell_margins" ->
            [slide EXCEPT !.cells[st.cell] = _vertical_alignment(@, "middle")]
      [] st.op = "_shape_fill" ->
            [slide EXCEPT !.cells[st.cell].fill = [type |-> "solid", color |-> st.args.fill_color]]
      [] st.op = "shape_text" -> [slide EXCEPT !.cells[st.cell] = WithText(@, st.args)]
      [] st.op = "_cell_border" ->
            [slide EXCEPT !.cells[st.cell] =
                _cell_border(@, st.args.borders, st.args.line_type, st.args.border_color,
                             st.args.border_width)]
      [] st.op = "propbar" -> [slide EXCEPT !.bars = Append(@, st.args)]
      [] st.op = "add_chart" ->
            [slide EXCEPT !.charts =
                Append(@, NewChart(st.args.chart_type, st.args.data, st.args.x, st.args.y,
                                   st.args.cx, st.args.cy))]
      [] st.op \in ChartStatements ->
            [slide EXCEPT !.charts[Len(slide.charts)] = OnChart(st, @)]
      [] OTHER -> slide

\* the dataframes the builders are called with: 1..MaxRows rows, the last one the
\* Total row, a label column and three period columns; row k holds the number
\* sign[k] in every period, and the rows run through -1, 0, 1 from any of them on
BuilderFrame(sign) ==
    [columns |-> <<"Region", "2016-Q4", "2017-Q4", "2018-Q4">>,
     rows |-> [k \in DOMAIN sign |->
                 [c \in {"Region", "2016-Q4", "2017-Q4", "2018-Q4"} |->
                     IF c = "Region"
                     THEN (IF k = Len(sign) THEN "Total" ELSE <<"West", "East", "South", "Central">>[k])
                     ELSE Num(sign[k])]]]

BuilderFrames ==
    {BuilderFrame([k \in 1..n |-> ((k + first) % 3) - 1]) : n \in 1..MaxRows, first \in 0..2}

\* growth tables with growths near zero: 0.004 %, 0.012 % and their negatives
GrowthFrames ==
    {[columns |-> <<"Region", "2016-Q4", "2017-Q4", "2018-Q4">>,
      rows |-> << [c \in {"Region", "2016-Q4", "2017-Q4", "2018-Q4"} |->
                      CASE c = "Region" -> "West" [] c = "2016-Q4" -> Float(sign, 250)
                        [] c = "2017-Q4" -> Float(3 * sign, 250) [] OTHER -> Num(0)],
                  [c \in {"Region", "2016-Q4", "2017-Q4", "2018-Q4"} |->
                      CASE c = "Region" -> "Total" [] c = "2016-Q4" -> Float(-sign, 250)
                        [] c = "2017-Q4" -> Num(100) [] OTHER -> Float(-3 * sign, 250)] >>] :
        sign \in {-1, 1}}

\* the calls of trend_table as the scripts make them
TrendTableCalls ==
    {[fn |-> "trend_table", df |-> d, chart_type |-> ct,
      horizontal_pos |-> IF script = "demo" THEN (IF ct = "line" THEN 1170 ELSE 1310) ELSE 990,
      vertical_pos |-> IF script = "demo" THEN 200
                       ELSE IF ct = "line" THEN 64
                       ELSE (standard_row_height * (Len(d.rows) + 3)) + 64] :
        d \in BuilderFrames \cup GrowthFrames, ct \in {"line", "bar"}}

\* the label of the quarter q quarters after 2015-Q1:
\* df['Order_Year'].astype(str) + '-Q' + df['Order_Quarter'].astype(str)
QuarterLabel(q) == IntStr(2015 + (q \div 4)) \o "-Q" \o IntStr((q % 4) + 1)

\* df_hc with its Total row for data of n consecutive quarters from 2015-Q1 on:
\* every pivot value sells 1 in every quarter
SummaryOver(n, len) ==
    LET quarters == [q \in 1..n |-> QuarterLabel(q - 1)]
    IN  [columns |-> <<"Region">> \o quarters,
         rows |-> [k \in 1..len |->
                     [c \in {"Region"} \cup Range(quarters) |->
                         IF c = "Region"
                         THEN (IF k = len THEN "Total" ELSE <<"West", "East", "South", "Central">>[k])
                         ELSE IF k = len THEN Num(IF len = 1 THEN 1 ELSE len - 1) ELSE Num(1)]]]

\* the calls of prop_table as superstore_example.py makes them, on the df_hc_mix of
\* QuarterLag + 1 .. MaxQuarters quarters of data
PropTableCalls ==
    IF script = "superstore"
    THEN {[fn |-> "prop_table", quarters |-> n, df |-> MixClean(SummaryOver(n, len), "Region"),
           horizontal_pos |-> 1130, vertical_pos |-> 64] :
             n \in (QuarterLag + 1)..MaxQuarters, len \in 1..MaxRows}
    ELSE {}

\* the calls of table, value_table and qoq_table as the scripts make them
TableCalls ==
    IF script = "demo"
    THEN {[fn |-> "table", df |-> d, horizontal_pos |-> 30, vertical_pos |-> 200] :
             d \in BuilderFrames}
    ELSE {[fn |-> "value_table", df |-> d, horizontal_pos |-> 10, vertical_pos |-> 64] :
             d \in BuilderFrames}
         \cup {[fn |-> "qoq_table", df |-> d, horizontal_pos |-> 10,
                vertical_pos |-> (standard_row_height * (Len(d.rows) + 3)) + 64] :
                 d \in BuilderFrames \cup GrowthFrames}

\* the statements of a call of a builder
Program(c) ==
    CASE c.fn = "trend_table" ->
            trend_table(c.df, "title", "Trend", c.horizontal_pos, c.vertical_pos, c.chart_type)
      [] c.fn = "prop_table" ->
            prop_table(c.df, "Sales Proportion (%)", c.horizontal_pos, c.vertical_pos)
      [] c.fn = "table" -> table(c.df, "Yearly Sales ($)", c.horizontal_pos, c.vertical_pos)
      [] c.fn = "value_table" -> value_table(c.df, "Sales ($)", c.horizontal_pos, c.vertical_pos)
      [] c.fn = "qoq_table" ->
            qoq_table(c.df, "Sales YoY Growth (%)", c.horizontal_pos, c.vertical_pos)
      [] OTHER -> <<>>

Builders == {"table", "value_table", "qoq_table", "trend_table", "prop_table"}

\* the next statement of the builder runs; an exception ends the call
BuilderStep ==
    /\ call.fn \in Builders /\ outcome = "running"
    /\ stmt < Len(program)
    /\ IF program[stmt + 1].op = "raise"
       THEN obj' = obj /\ outcome' = "raised"
       ELSE /\ obj' = Apply(program[stmt + 1], obj)
            /\ outcome' = IF stmt + 1 = Len(program) THEN "returned" ELSE "running"
    /\ stmt' = stmt + 1
    /\ UNCHANGED <<call, program>>
    /\ UNCHANGED run_vars

(***************************************************************************)
(* Text.  A shape is its text frame: the paragraphs in order, each with    *)
(* its runs; a property nothing has set is <<>> (None), a set one <<v>>.   *)
(* An item of the text list is a string, or a list of strings (list = TRUE *)
(* and the sub-items in parts).                                            *)
(***************************************************************************)
\* a string item of text
Str(string) == [list |-> FALSE, parts |-> <<string>>]

\* a list item of text
Lst(parts) == [list |-> TRUE, parts |-> parts]

\* the paragraph tf.add_paragraph() adds
NewParagraph == [runs |-> <<>>, alignment |-> "None", buChar |-> ""]

\* a new shape: its text frame holds the initial paragraph
NewShape ==
    [kind |-> "shape", paragraphs |-> <<NewParagraph>>, vertical_anchor |-> "None",
     word_wrap |-> <<>>, fill |-> "None", line |-> "None"]

\* the runs of a list item: one per sub-item with its text, size, run_bold[index] and
\* colour; the sub-item past the end of run_bold gets its run, text and size, and
\* run_bold[index] raises IndexError
ListRuns(parts, font_size, font_color, run_bold) ==
    LET count == IF Len(parts) <= Len(run_bold) THEN Len(parts) ELSE Len(run_bold) + 1
    IN  [k \in 1..count |->
            IF k <= Len(run_bold)
            THEN [text |-> parts[k], size |-> <<font_size>>, bold |-> <<run_bold[k]>>,
                  color |-> font_color]
            ELSE [text |-> parts[k], size |-> <<font_size>>, bold |-> <<>>, color |-> "None"]]

\* whether the body of the paragraph loop raises on the item
ItemRaises(item, run_bold) == item.list /\ Len(item.parts) > Len(run_bold)

\* the paragraph the loop body adds for one item; bullet and alignment are not
\* reached when the runs raise
ParagraphOf(item, font_size, font_color, bold, horizontal_alignment, bulleted, run_bold) ==
    LET runs == IF item.list THEN ListRuns(item.parts, font_size, font_color, run_bold)
                ELSE <<[text |-> item.parts[1], size |-> <<font_size>>, bold |-> <<bold>>,
                        color |-> font_color]>>
        p    == [NewParagraph EXCEPT !.runs = runs]
    IN  IF ItemRaises(item, run_bold) THEN p
        ELSE _horizontal_alignment([p EXCEPT !.buChar = IF bulleted THEN "bullet" ELSE ""],
                                   horizontal_alignment)

\* for line in text: the text frame after the loop, and whether the loop raised
RECURSIVE ParagraphLoop(_, _, _, _, _, _, _, _, _)
ParagraphLoop(tf, text, font_size, font_color, bold, horizontal_alignment, vertical_alignment, bulleted, run_bold) ==
    IF text = <<>> THEN [shape |-> tf, raised |-> FALSE]
    ELSE LET item  == Head(text)
             p     == ParagraphOf(item, font_size, font_color, bold, horizontal_alignment,
                                  bulleted, run_bold)
             added == [tf EXCEPT !.paragraphs = Append(@, p)]
         IN  IF ItemRaises(item, run_bold) THEN [shape |-> added, raised |-> TRUE]
             ELSE ParagraphLoop(_vertical_alignment(added, vertical_alignment), Tail(text),
                                font_size, font_color, bold, horizontal_alignment,
                                vertical_alignment, bulleted, run_bold)

\* _paragraphs gone wrong: the initial paragraph is not removed
ParagraphsKeepsInitial(shape, text, font_size, font_color, bold, horizontal_alignment, vertical_alignment, bulleted, run_bold) ==
    ParagraphLoop([shape EXCEPT !.word_wrap = <<TRUE>>],
                  text, font_size, font_color, bold, horizontal_alignment, vertical_alignment,
                  bulleted, run_bold)

\* _paragraphs on a shape with a first paragraph: that paragraph is removed,
\* word_wrap set, and one paragraph added per item of text
_paragraphs(shape, text, font_size, font_color, bold, horizontal_alignment, vertical_alignment, bulleted, run_bold) ==
    ParagraphLoop([shape EXCEPT !.paragraphs = Tail(@), !.word_wrap = <<TRUE>>],
                  text, font_size, font_color, bold, horizontal_alignment, vertical_alignment,
                  bulleted, run_bold)

\* shape_text: _paragraphs, then the outline and the fill when a colour is given
\* ("False" is the default, no colour)
shape_text(shape, text, font_size, bold, font_color, fill_color, border_color, horizontal_alignment, vertical_alignment, bulleted, run_bold) ==
    LET done == _paragraphs(shape, text, font_size, font_color, bold, horizontal_alignment,
                            vertical_alignment, bulleted, run_bold)
        lined  == IF border_color # "False" THEN [done.shape EXCEPT !.line = border_color]
                  ELSE done.shape
        filled == IF fill_color # "False" THEN [lined EXCEPT !.fill = fill_color] ELSE lined
    IN  IF done.raised THEN done ELSE [shape |-> filled, raised |-> FALSE]

\* the text lists shape_text is called with: strings, two-part items as the
\* scripts pass them, and items of no, one and three parts
Texts ==
    {<<>>, <<Str("Total")>>, <<Str("Sales"), Str("Growth")>>,
     <<Lst(<<"Segment: ", "Consumer">>)>>,
     <<Lst(<<"Segment: ", "Consumer">>), Str("Total"), Lst(<<>>)>>,
     <<Lst(<<"Chair">>), Lst(<<"Desk", "  ($1,000)">>)>>,
     <<Lst(<<"Desk", "  ($1,000)", " each">>)>>,
     <<Str("Total"), Lst(<<"Desk", "  ($1,000)", " each">>), Str("Sales")>>}

\* the calls of shape_text on a new shape
ShapeTextCalls ==
    {[fn |-> "shape_text", shape |-> NewShape, text |-> t, font_size |-> 10, bold |-> b,
      font_color |-> primary_color, fill_color |-> f, border_color |-> "False",
      horizontal_alignment |-> h, vertical_alignment |-> "middle", bulleted |-> u,
      run_bold |-> rb] :
        t \in Texts, b \in BOOLEAN, f \in {"False", secondary_color}, h \in {"left", "center"},
        u \in BOOLEAN, rb \in {<<FALSE, FALSE>>, <<FALSE, TRUE>>, <<TRUE>>}}

\* shape_text(shape, text, ...) runs to its return or to the exception
ShapeTextCall ==
    /\ call.fn = "shape_text" /\ outcome = "running"
    /\ LET done == shape_text(obj, call.text, call.font_size, call.bold, call.font_color,
                              call.fill_color, call.border_color, call.horizontal_alignment,
                              call.vertical_alignment, call.bulleted, call.run_bold)
       IN  /\ obj' = done.shape
           /\ outcome' = IF done.raised THEN "raised" ELSE "returned"
    /\ stmt' = stmt + 1
    /\ UNCHANGED <<call, program>>
    /\ UNCHANGED run_vars

\* the calls of the two alignment helpers
AlignmentCalls ==
    {[fn |-> f, shape |-> s, alignment |-> a] :
        f \in {"_horizontal_alignment", "_vertical_alignment"},
        s \in TextShapes, a \in AlignmentArguments}

\* the helper returns
Return ==
    /\ stmt' = stmt + 1
    /\ outcome' = "returned"
    /\ UNCHANGED <<call, program>>
    /\ UNCHANGED run_vars

HorizontalAlignment ==
    /\ call.fn = "_horizontal_alignment" /\ outcome = "running"
    /\ obj' = _horizontal_alignment(obj, call.alignment)
    /\ Return

VerticalAlignment ==
    /\ call.fn = "_vertical_alignment" /\ outcome = "running"
    /\ obj' = _vertical_alignment(obj, call.alignment)
    /\ Return

\* the fills a cell may have when _cell_border is called: none, solid with an RGB
\* colour, solid with a theme colour, a gradient
CellFills ==
    {[type |-> "none", color |-> "none"], [type |-> "solid", color |-> primary_color],
     [type |-> "solid", color |-> positive_color], [type |-> "solid", color |-> "scheme"],
     [type |-> "gradient", color |-> "none"]}

\* a line element as a cell may hold it before the call
OldLine(name) == Element(name, "6350", "FF0000", "dash")

\* the children of a:tcPr, the fill apart, a cell may have when _cell_border is called
CellProperties ==
    {<<>>, <<OldLine("lnB")>>, <<OldLine("lnL"), OldLine("lnB")>>, <<OldLine("lnR"), OldLine("lnT")>>,
     <<OldLine("lnB"), OldLine("lnBlToTr")>>, <<OldLine("lnTlToBr")>>,
     <<OldLine("lnT"), OldLine("lnTlToBr"), Element("extLst", "", "", "")>>}

\* the lists of sides ('a:lnL', 'a:lnR', 'a:lnT', 'a:lnB') _cell_border is called with
BorderLists ==
    {<<>>, <<"a:lnB">>, <<"a:lnT">>, <<"a:lnL", "a:lnR">>, <<"a:lnB", "a:lnB">>, <<"a:lnT", "a:lnB">>}

\* the calls of _cell_border
CellBorderCalls ==
    {[fn |-> "_cell_border", cell |-> [NewCell EXCEPT !.fill = f, !.tcPr = p], borders |-> b,
      line_type |-> t, border_color |-> "07182D", border_width |-> "12700"] :
        f \in CellFills, p \in CellProperties, b \in BorderLists, t \in {"solid", "dot"}}

\* _cell_border(cell, borders, line_type, border_color, border_width), which the
\* caller may repeat once on the cell it returned
CellBorder ==
    /\ call.fn = "_cell_border" /\ outcome \in {"running", "returned"}
    /\ stmt < 2
    /\ IF CellBorderRaises(obj)
       THEN obj' = obj /\ outcome' = "raised"
       ELSE /\ obj' = _cell_border(obj, call.borders, call.line_type, call.border_color,
                                   call.border_width)
            /\ outcome' = "returned"
    /\ stmt' = stmt + 1
    /\ UNCHANGED <<call, program>>
    /\ UNCHANGED run_vars

\* the calls of the model
Calls ==
    AlignmentCalls \cup ShapeTextCalls \cup CellBorderCalls \cup TableCalls
        \cup TrendTableCalls \cup PropTableCalls

\* the object a call starts on
Receiver(c) ==
    IF c.fn \in Builders THEN EmptySlide
    ELSE IF c.fn = "_cell_border" THEN c.cell ELSE c.shape

InitHelpers ==
    /\ script \in {"demo", "superstore"}
    /\ input = {}
    /\ Start
    /\ call \in Calls
    /\ program = Program(call)
    /\ obj = Receiver(call)
    /\ stmt = 0
    /\ outcome = "running"

NextHelpers ==
    \/ HorizontalAlignment
    \/ VerticalAlignment
    \/ ShapeTextCall
    \/ CellBorder
    \/ BuilderStep

SpecHelpers == InitHelpers /\ [][NextHelpers]_vars

(***************************************************************************)
(* Properties of the helper functions.                                     *)
(***************************************************************************)
\* the call of helper fn has returned
Returned(fn) == call.fn = fn /\ outcome = "returned"

\* C11: _horizontal_alignment sets the alignment to LEFT, CENTER or RIGHT exactly
\* when the string is 'left', 'center' or 'right', _vertical_alignment sets the
\* anchor to TOP, MIDDLE or BOTTOM exactly when the string is 'top', 'middle' or
\* 'bottom'; for any other string the shape is left as it was and nothing is raised.
C11_Alignment ==
    /\ call.fn \in {"_horizontal_alignment", "_vertical_alignment"} => outcome # "raised"
    /\ Returned("_horizontal_alignment") =>
          /\ obj.vertical_anchor = call.shape.vertical_anchor
          /\ obj.alignment =
                (CASE call.alignment = "left" -> "LEFT"
                   [] call.alignment = "center" -> "CENTER"
                   [] call.alignment = "right" -> "RIGHT"
                   [] OTHER -> call.shape.alignment)
    /\ Returned("_vertical_alignment") =>
          /\ obj.alignment = call.shape.alignment
          /\ obj.vertical_anchor =
                (CASE call.alignment = "top" -> "TOP"
                   [] call.alignment = "middle" -> "MIDDLE"
                   [] call.alignment = "bottom" -> "BOTTOM"
                   [] OTHER -> call.shape.vertical_anchor)

\* a centred paragraph keeps its alignment when the string is no case of the match
C11_Witness ==
    /\ Returned("_horizontal_alignment")
    /\ call.alignment = "justify"
    /\ call.shape.alignment = "CENTER" /\ obj.alignment = "CENTER"

\* the sum of the first n lengths of a sequence
RECURSIVE SumFirst(_, _)
SumFirst(s, n) == IF n = 0 THEN 0 ELSE SumFirst(s, n - 1) + s[n]

\* the edges of the cell in row r, column c (both from 0) of a table
CellBox(grid, r, c) ==
    [left   |-> grid.left + SumFirst(grid.widths, c),
     right  |-> grid.left + SumFirst(grid.widths, c + 1),
     top    |-> grid.top + SumFirst(grid.heights, r),
     bottom |-> grid.top + SumFirst(grid.heights, r + 1)]

\* the four edges of a chart lie within the box
Within(chart, box) ==
    /\ box.left <= chart.x /\ chart.x + chart.cx <= box.right
    /\ box.top <= chart.y /\ chart.y + chart.cy <= box.bottom

\* C12: every chart that trend_table overlays lies within the table cell of its own
\* data row: the chart of the row with index k is inside the cell of table row
\* k + 2, for chart_type 'line' and 'bar' and in both scripts.
C12_Original ==
    Returned("trend_table") =>
        /\ Len(obj.charts) = Len(call.df.rows)
        /\ \A n \in DOMAIN obj.charts :
              Within(obj.charts[n], CellBox(obj.table, (n - 1) + 2, 0))

\* the chart shows no title, no legend, no gridlines and neither axis
Bare(chart) ==
    /\ ~chart.has_title /\ ~chart.has_legend
    /\ \A axis \in {chart.value_axis, chart.category_axis} :
          ~axis.visible /\ ~axis.has_major_gridlines /\ ~axis.has_minor_gridlines

\* the call of sparkline or sparkbar that added chart n of the slide has returned:
\* the builder has gone on to the next chart or has returned itself
SparkReturned(n) == n < Len(obj.charts) \/ outcome = "returned"

\* C13: once sparkline() or sparkbar() has returned, the chart it added has no
\* title, no legend, no major or minor gridlines and both axes hidden, and no later
\* statement of sparkline(), sparkbar() or trend_table turns any of them on again.
C13_PlotAreaOnly ==
    /\ [](call.fn = "trend_table" =>
             \A n \in DOMAIN obj.charts : SparkReturned(n) => Bare(obj.charts[n]))
    /\ [][call.fn = "trend_table" =>
             \A n \in DOMAIN obj.charts : Bare(obj.charts[n]) => Bare(obj'.charts[n])]_vars

C13_Witness ==
    /\ Returned("trend_table") /\ call.chart_type = "bar"
    /\ Len(obj.charts) >= 2
    /\ \A n \in DOMAIN obj.charts :
          Bare(obj.charts[n]) /\ obj.charts[n].value_axis.maximum_scale # <<>>

\* the three columns prop_table looks up by name for the bars of a row
LookedUp(frame) == <<PropColumn(frame, 2), PropColumn(frame, 1), PropColumn(frame, 0)>>

\* C14: every column prop_table references exists: the call ends without an
\* exception, and the three columns it looks up by name (the last column's year
\* minus 2, minus 1 and minus 0, with its quarter suffix) are exactly columns 1, 2
\* and 3 of df_hc_mix, the columns whose values the cells print.
C14_Original ==
    (call.fn = "prop_table" /\ outcome # "running") =>
        /\ outcome = "returned"
        /\ Len(call.df.columns) >= 4
        /\ LookedUp(call.df) = SubSeq(call.df.columns, 2, 4)

\* the three tables of the current entry are those of the given rows of df (and
\* there are such rows)
ComputedFrom(data) ==
    /\ data # {}
    /\ LET entry == slide_order[i]
           t     == WithTotals(FillNa(Pivot(data, entry.pivot, "Calendar_Quarter"), Num(0)))
       IN  /\ df_hc = SummaryKept(t)
           /\ df_hc_qoq = GrowthClean(t)
           /\ df_hc_mix = MixClean(t, entry.pivot)

\* the dataframes of the current entry, a pivot slide, have been computed
PivotComputed ==
    /\ script = "superstore" /\ pc \in {"add_slide", "render"}
    /\ DataBranch(slide_order[i].type) = "pivot"

\* C15: on a pivot slide whose entry has a 'filters' expression the value, growth
\* and mix tables are computed only from the rows of df that satisfy it, and on a
\* pivot slide without one from all rows; for every filtered entry of slide_order,
\* the Region and the Sub-Category filters alike.
C15_Original ==
    PivotComputed =>
        LET entry == slide_order[i]
        IN  IF "filters" \in DOMAIN entry
            THEN ComputedFrom({r \in df : r[entry.filters.lhs] = entry.filters.rhs})
            ELSE ComputedFrom(df)

\* C16: _cell_border preserves the fill of the cell: a solid fill is a solid fill
\* of the same colour after the call, and any other fill is unchanged.
C16_FillPreserved ==
    (call.fn = "_cell_border" /\ stmt >= 1) =>
        IF IsSolid(call.cell.fill)
        THEN IsSolid(obj.fill) /\ obj.fill.color = call.cell.fill.color
        ELSE obj.fill = call.cell.fill

C16_Witness ==
    /\ Returned("_cell_border") /\ stmt = 1
    /\ call.cell.fill = [type |-> "solid", color |-> positive_color]
    /\ obj.fill = call.cell.fill
    /\ obj.tcPr # call.cell.tcPr

\* the border elements of a side among the cell properties
LinesOf(tcPr, side) ==
    {n \in DOMAIN tcPr : tcPr[n].tag = DrawingML \o AfterLastColon(side)}

\* C17: after _cell_border(cell, borders) the cell properties hold exactly one
\* border element for each side listed, with the requested width, colour and dash
\* style, whatever the cell held before; a second call with the same arguments
\* leaves the cell properties of the first.
C17_OneBorderPerSide ==
    Returned("_cell_border") =>
        /\ \A k \in DOMAIN call.borders :
              /\ Cardinality(LinesOf(obj.tcPr, call.borders[k])) = 1
              /\ \A n \in LinesOf(obj.tcPr, call.borders[k]) :
                    obj.tcPr[n] = Element(AfterLastColon(call.borders[k]), call.border_width,
                                          call.border_color, call.line_type)
        /\ stmt = 2 =>
              obj.tcPr = _cell_border(call.cell, call.borders, call.line_type, call.border_color,
                                      call.border_width).tcPr

C17_Witness ==
    /\ Returned("_cell_border") /\ stmt = 2
    /\ call.borders = <<"a:lnL", "a:lnR">>
    /\ call.cell.tcPr = <<OldLine("lnR"), OldLine("lnT")>>
    /\ Len(obj.tcPr) = 3

\* the children of the cell properties that are no border element of a listed side
OtherChildren(tcPr, borders) ==
    SelectSeq(tcPr, LAMBDA e : \A k \in DOMAIN borders :
                                  e.tag # DrawingML \o AfterLastColon(borders[k]))

\* C18: _cell_border removes only border elements of the sides listed in borders:
\* every other child of the cell properties (borders of other sides, the diagonal
\* lines lnBlToTr and lnTlToBr, other formatting) is still there, unchanged.
C18_Original ==
    Returned("_cell_border") =>
        OtherChildren(obj.tcPr, call.borders) = OtherChildren(call.cell.tcPr, call.borders)

\* the cell has a bottom border
HasBottomBorder(cell) == LinesOf(cell.tcPr, "a:lnB") # {}

\* C19: in every table builder a cell gets a bottom border exactly when it is a
\* data cell of the last or the second-to-last data row, and the text of a data
\* cell is bold exactly when it is in the last data row; title and column-header
\* cells (table rows 0 and 1) never get a bottom border, whatever the number of
\* rows of the dataframe, a single row included.
C19_Original ==
    (call.fn \in Builders /\ outcome = "returned") =>
        LET len == Len(call.df.rows)
        IN  \A rc \in DOMAIN obj.cells :
               LET r == rc[1]
               IN  /\ HasBottomBorder(obj.cells[rc]) <=> (r >= 2 /\ r \in {len, len + 1})
                   /\ r >= 2 => (obj.cells[rc].bold <=> r = len + 1)

\* the statements of the call that have run
Executed == SubSeq(program, 1, stmt)

\* C20: in every table builder the row heights are set only after text has been put
\* into every cell of the table: once _table_row_sizes has run every cell of the
\* table has its text, and no shape_text on a cell runs after it.
C20_TextBeforeRowSizes ==
    call.fn \in Builders =>
        /\ \A n \in DOMAIN Executed :
              Executed[n].op = "shape_text" =>
                  \A m \in 1..(n - 1) : Executed[m].op # "_table_row_sizes"
        /\ (obj.table.rows > 0 /\ obj.table.sized) =>
              \A rc \in DOMAIN obj.cells \ obj.table.merged : obj.cells[rc].text # ""

C20_Witness ==
    /\ call.fn = "qoq_table" /\ outcome = "returned"
    /\ Len(call.df.rows) >= 2
    /\ obj.table.sized
    /\ obj.table.merged # {}
    /\ \E n \in DOMAIN Executed : Executed[n].op = "shape_text"

\* the paragraph is the one claimed for the item: a string item is one run with
\* bold = bold, a list item one run per sub-item in order, run k with run_bold[k]
ParagraphAsItem(p, item, bold, run_bold) ==
    IF item.list
    THEN /\ Len(p.runs) = Len(item.parts)
         /\ \A k \in DOMAIN p.runs :
               /\ p.runs[k].text = item.parts[k]
               /\ k \in DOMAIN run_bold /\ p.runs[k].bold = <<run_bold[k]>>
    ELSE /\ Len(p.runs) = 1
         /\ p.runs[1].text = item.parts[1]
         /\ p.runs[1].bold = <<bold>>

\* the text frame holds exactly one paragraph per item of the text, in list order
ParagraphsAsText ==
    /\ Len(obj.paragraphs) = Len(call.text)
    /\ \A n \in DOMAIN obj.paragraphs :
          ParagraphAsItem(obj.paragraphs[n], call.text[n], call.bold, call.run_bold)

\* C21 as stated: on a shape with only its initial paragraph shape_text returns and
\* leaves exactly len(text) paragraphs, one per item in list order, a string item
\* as one run with bold = bold and a list item as one run per sub-item, the k-th
\* with bold = run_bold[k].
C21_Original ==
    (call.fn = "shape_text" /\ outcome # "running") =>
        outcome = "returned" /\ ParagraphsAsText

\* no list item of the text has more sub-items than run_bold has entries
RunBoldCovers == \A n \in DOMAIN call.text : ~ItemRaises(call.text[n], call.run_bold)

\* C21: when no list item has more sub-items than run_bold has entries, shape_text
\* on a shape with only its initial paragraph leaves exactly len(text) paragraphs,
\* one per item in list order, with the runs and bold flags as stated; when some
\* list item has more, shape_text raises IndexError at the first such item: its
\* paragraph is the last one of the text frame and ends with the run of the first
\* sub-item beyond run_bold.
C21_Paragraphs ==
    (call.fn = "shape_text" /\ outcome # "running") =>
        IF RunBoldCovers
        THEN outcome = "returned" /\ ParagraphsAsText
        ELSE /\ outcome = "raised"
             /\ LET last == Len(obj.paragraphs)
                IN  /\ ItemRaises(call.text[last], call.run_bold)
                    /\ \A n \in 1..(last - 1) : ~ItemRaises(call.text[n], call.run_bold)
                    /\ Len(obj.paragraphs[last].runs) = Len(call.run_bold) + 1

C21_Witness ==
    /\ Returned("shape_text")
    /\ call.text = <<Lst(<<"Segment: ", "Consumer">>), Str("Total"), Lst(<<>>)>>
    /\ call.run_bold = <<FALSE, TRUE>> /\ call.bold
    /\ obj.paragraphs[1].runs[2].bold = <<TRUE>>
    /\ Len(obj.paragraphs) = 3

\* the numeric cells of the table of a returned call: table row and column (from 0)
\* with the number of the dataframe shown there
NumericCells ==
    {rc \in DOMAIN obj.cells :
        /\ rc[1] >= 2
        /\ IsNumber(call.df.rows[rc[1] - 1][call.df.columns[rc[2] + 1]])}

ValueAt(rc) == call.df.rows[rc[1] - 1][call.df.columns[rc[2] + 1]]

\* the fill of the cell is solid with the colour
FilledWith(rc, color) == obj.cells[rc].fill = [type |-> "solid", color |-> color]

\* C22 as stated: in qoq_table a numeric cell is filled red when its value is
\* negative, green when it is positive and white when it is zero.
C22_Original ==
    Returned("qoq_table") =>
        \A rc \in NumericCells :
            /\ FLess(ValueAt(rc), Num(0)) => FilledWith(rc, negative_color)
            /\ FLess(Num(0), ValueAt(rc)) => FilledWith(rc, positive_color)
            /\ ValueAt(rc) = Num(0) => FilledWith(rc, white_color)

\* the numbers of row n of the dataframe of the call, in column order: the data of
\* the chart trend_table overlays on that row
RowData(n) ==
    [k \in 1..(Len(call.df.columns) - 1) |-> call.df.rows[n][call.df.columns[k + 1]]]

\* the colour the sign of the number x stands for
SignColor(x) == IF x[1] > 0 THEN "00B050" ELSE IF x[1] < 0 THEN "EB4651" ELSE "000000"

\* x is the largest (least = FALSE) or the smallest (least = TRUE) item of data
Extreme(x, data, least) ==
    /\ \E k \in DOMAIN data : data[k] = x
    /\ \A k \in DOMAIN data : IF least THEN ~FLess(data[k], x) ELSE ~FLess(x, data[k])

\* C23: once sparkbar has returned, every data point of its chart has the fill
\* colour of the sign of its value (green above 0, red below 0, black at 0), and the
\* value axis runs from the minimum to the maximum of the plotted data.
C23_SparkbarBySign ==
    (call.fn = "trend_table" /\ call.chart_type = "bar") =>
        \A n \in DOMAIN obj.charts :
            SparkReturned(n) =>
                LET chart == obj.charts[n]
                IN  /\ chart.values = RowData(n)
                    /\ DOMAIN chart.point_fill = DOMAIN chart.values
                    /\ \A k \in DOMAIN chart.values :
                          chart.point_fill[k] = SignColor(chart.values[k])
                    /\ Len(chart.value_axis.maximum_scale) = 2
                    /\ Extreme(chart.value_axis.maximum_scale, chart.values, FALSE)
                    /\ Len(chart.value_axis.minimum_scale) = 2
                    /\ Extreme(chart.value_axis.minimum_scale, chart.values, TRUE)

C23_Witness ==
    /\ Returned("trend_table") /\ call.chart_type = "bar"
    /\ \E n \in DOMAIN obj.charts :
          LET chart == obj.charts[n]
          IN  /\ \E k \in DOMAIN chart.values : chart.point_fill[k] = "00B050"
              /\ \E k \in DOMAIN chart.values : chart.point_fill[k] = "EB4651"
              /\ FLess(chart.value_axis.minimum_scale, Num(0))
              /\ FLess(Num(0), chart.value_axis.maximum_scale)
    /\ \E n \in DOMAIN obj.charts :
          LET chart == obj.charts[n]
          IN  /\ \E k \in DOMAIN chart.values : chart.point_fill[k] = "000000"
              /\ chart.value_axis.minimum_scale # chart.value_axis.maximum_scale

====
